---- MODULE Spec2Model ----
(***************************************************************************)
(* Model of the multicore Hines matrix back end (matrix_state) of arbor:   *)
(* construction, assemble_implicit, solve, step_explicit and solution.     *)
(*                                                                         *)
(* value_type (double) is modelled by extended rationals <<num, den>>:     *)
(* den > 0 is a finite value in lowest terms, <<1,0>> and <<-1,0>> are the *)
(* infinities and <<0,0>> is NaN, with IEEE-754 rules for division by zero *)
(* and for arithmetic on non-finite values.  Rounding and the sign of zero *)
(* are not modelled.                                                       *)
(*                                                                         *)
(* Arrays are functions on 0..n-1, as in the source.  A batch is a list of *)
(* cells, each with at least one CV; the first CV of a cell is its root,   *)
(* whose parent_index is its own index and whose face_conductance is 0;    *)
(* every other CV has its parent inside its cell at a smaller index.       *)
(***************************************************************************)
EXTENDS Integers, Sequences, FiniteSets, TLC

\* ---------------------------------------------------------------- bounds
\* Largest number of CVs in a batch.
MaxCV == 3
\* Largest number of solve() calls on one assembly of the diagonal d.
MaxSolves == 1
\* solve() is explored on values whose numerator and denominator are at most
\* this large, so that its arithmetic stays inside TLC's 32-bit integers.
MaxMagnitude == 100

\* ------------------------------------------------- value_type arithmetic
Abs(x) == IF x < 0 THEN -x ELSE x

Sgn(x) == IF x > 0 THEN 1 ELSE IF x < 0 THEN -1 ELSE 0

RECURSIVE Gcd(_, _)
Gcd(a, b) == IF b = 0 THEN a ELSE Gcd(b, a % b)

Norm(n, dn) ==
    IF dn = 0 THEN <<Sgn(n), 0>>
    ELSE LET g == Gcd(Abs(n), Abs(dn))
             s == IF dn < 0 THEN -1 ELSE 1
         IN  <<(s * n) \div g, (s * dn) \div g>>

R(x) == <<x, 1>>
Zero == <<0, 1>>
NaN == <<0, 0>>
IsFinite(a) == a[2] # 0

RNeg(a) == <<-a[1], a[2]>>
RAdd(a, b) ==
    IF a[2] = 0 /\ b[2] = 0
    THEN (IF a = b THEN a ELSE NaN)
    ELSE IF a[2] = 0 THEN a
    ELSE IF b[2] = 0 THEN b
    ELSE IF a[2] = 1 /\ b[2] = 1 THEN <<a[1] + b[1], 1>>
    ELSE LET g == Gcd(a[2], b[2])
         IN  Norm(a[1] * (b[2] \div g) + b[1] * (a[2] \div g), (a[2] \div g) * b[2])
RSub(a, b) == RAdd(a, RNeg(b))
RMul(a, b) ==
    IF a[2] = 0 \/ b[2] = 0 THEN <<Sgn(a[1]) * Sgn(b[1]), 0>>
    ELSE IF a[2] = 1 /\ b[2] = 1 THEN <<a[1] * b[1], 1>>
    ELSE LET g1 == Gcd(Abs(a[1]), b[2])
             g2 == Gcd(Abs(b[1]), a[2])
         IN  <<(a[1] \div g1) * (b[1] \div g2), (a[2] \div g2) * (b[2] \div g1)>>
\* a/b is a times the reciprocal of b; 1/0 is an infinity and 1/inf is 0.
RDiv(a, b) ==
    IF b[2] = 0 THEN (IF a[2] = 0 \/ b[1] = 0 THEN NaN ELSE Zero)
    ELSE IF b[1] = 0 THEN <<Sgn(a[1]), 0>>
    ELSE RMul(a, <<Sgn(b[1]) * b[2], Abs(b[1])>>)
\* x > 0 and x != 0 as the comparisons of doubles decide them.
RPos(a) == a[1] > 0
RNonZero(a) == a # Zero

Small(a) == Abs(a[1]) <= MaxMagnitude /\ a[2] <= MaxMagnitude

\* The unit conversion factors 1e-3 and 1.e3 of the source.
Milli == <<1, 1000>>
Kilo == <<1000, 1>>

\* ------------------------------------------------------------- the state
VARIABLES
    parent_index, cell_cv_divs, d, u, rhs,
    cv_capacitance, cv_elastance, face_conductance, cv_area,
    cell_to_intdom, invariant_d,
    call,      \* the most recent assemble_implicit / step_explicit call and
               \* its arguments (op "matrix_state" before the first one)
    last_call, \* the name of the most recent call
    reused,    \* whether any call was made before
               \* the call recorded in `call`
    nsolve,    \* solve() calls since d was last assembled (or constructed)
    policy_call, \* the most recent cv_policy::cv_boundary_points call, with
               \* its policy, its arguments and the locset it returned
    geom,      \* the cv_geometry under construction (a batch of cells)
    out_of_range, \* the indices outside 0 .. size()-1 at which matrix_state
               \* has read or written one of its arrays
    sim,       \* the mock serial_simulation: its fields, its cell groups and
               \* the position of run()
    pw,        \* a pw_elements object: vertex_ and element_
    provider,  \* an mprovider: the label dictionary and the regions_ cache
    builder    \* a stitch (fragment) builder and the tree built from it

fields == <<parent_index, cell_cv_divs, u, cv_capacitance, cv_elastance,
            face_conductance, cv_area, cell_to_intdom, invariant_d>>
vars == <<parent_index, cell_cv_divs, d, u, rhs, cv_capacitance, cv_elastance,
          face_conductance, cv_area, cell_to_intdom, invariant_d, call, last_call,
          reused, nsolve, policy_call, geom, out_of_range, sim, pw, provider,
          builder>>

\* The discretization objects are not touched by the matrix back end.
NoPolicyCall == [policy |-> "none"]
NoGeometry == [cv_parent |-> << >>]
\* The objects of the other components, and their absence.
others == <<out_of_range, sim, pw, provider, builder>>
NoOthers ==
    /\ out_of_range = {} /\ sim = [pc |-> "none"] /\ pw = [vertex_ |-> << >>]
    /\ provider = [regions_ |-> << >>] /\ builder = [stitches |-> << >>]

\* matrix_state::size()
size == Cardinality(DOMAIN parent_index)
\* util::partition_view(cell_cv_divs): cell m owns CVs First(m) .. Last(m)-1.
ncells == Cardinality(DOMAIN cell_cv_divs) - 1
Cells == 0 .. (ncells - 1)
First(m) == cell_cv_divs[m]
Last(m) == cell_cv_divs[m + 1]
CellCVs(m) == First(m) .. (Last(m) - 1)
CVs == 0 .. (size - 1)
CellOf(i) == CHOOSE m \in Cells : i \in CellCVs(m)
IsRoot(i) == \E m \in Cells : i = First(m)
Children(i) == {c \in CVs : c # i /\ parent_index[c] = i}

\* ----------------------------------------------------------- constructor
\* Faulty variant of CtorLoop: the conductance is not added to the parent's diagonal.
RECURSIVE CtorLoopChildOnly(_, _, _, _, _, _)
CtorLoopChildOnly(i, n, p, fc, uu, inv) ==
    IF i >= n THEN <<uu, inv>>
    ELSE LET gij == fc[i]
             uu1 == [uu EXCEPT ![i] = RNeg(gij)]
             inv1 == [inv EXCEPT ![i] = RAdd(@, gij)]
         IN  CtorLoopChildOnly(i + 1, n, p, fc, uu1, inv1)

\* The loop of the constructor over i = 1 .. n-1.
RECURSIVE CtorLoop(_, _, _, _, _, _)
CtorLoop(i, n, p, fc, uu, inv) ==
    IF i >= n THEN <<uu, inv>>
    ELSE LET gij == fc[i]
             uu1 == [uu EXCEPT ![i] = RNeg(gij)]
             inv1 == [inv EXCEPT ![i] = RAdd(@, gij)]
             inv2 == [inv1 EXCEPT ![p[i]] = RAdd(@, gij)]
         IN  CtorLoop(i + 1, n, p, fc, uu1, inv2)

\* cv_elastance[i] = 1.e3/cv_capacitance[i]
Elastance(cap) == [i \in DOMAIN cap |-> RDiv(Kilo, cap[i])]

\* ----------------------------------------------------- assemble_implicit
\* Faulty variant of AssembleCell: d and rhs are accumulated (+=) instead of assigned.
AssembleCellAccumulate(ds, rs, m, a) ==
    LET dt == a.dt_intdom[cell_to_intdom[m]]
    IN  IF RPos(dt)
        THEN LET oodt_factor == RDiv(Milli, RMul(a.dt_coeff, dt))
                 area_factor(i) == RMul(Milli, cv_area[i])
                 gi(i) == RAdd(RMul(oodt_factor, cv_capacitance[i]),
                               RMul(area_factor(i), a.conductivity[i]))
             IN  << [i \in DOMAIN ds |->
                        IF i \in CellCVs(m)
                        THEN RAdd(ds[i], RAdd(gi(i), invariant_d[i])) ELSE ds[i]],
                    [i \in DOMAIN rs |->
                        IF i \in CellCVs(m)
                        THEN RAdd(rs[i], RSub(RMul(gi(i), a.voltage[i]),
                                              RMul(area_factor(i), a.current[i])))
                        ELSE rs[i]],
                    CellCVs(m) >>
        ELSE << [i \in DOMAIN ds |-> IF i \in CellCVs(m) THEN Zero ELSE ds[i]],
                [i \in DOMAIN rs |-> IF i \in CellCVs(m) THEN a.voltage[i] ELSE rs[i]],
                CellCVs(m) >>

\* Faulty variant of AssembleCell: the test is dt != 0 instead of dt > 0.
AssembleCellNonZeroDt(ds, rs, m, a) ==
    LET dt == a.dt_intdom[cell_to_intdom[m]]
    IN  IF RNonZero(dt)
        THEN LET oodt_factor == RDiv(Milli, RMul(a.dt_coeff, dt))
                 area_factor(i) == RMul(Milli, cv_area[i])
                 gi(i) == RAdd(RMul(oodt_factor, cv_capacitance[i]),
                               RMul(area_factor(i), a.conductivity[i]))
             IN  << [i \in DOMAIN ds |->
                        IF i \in CellCVs(m) THEN RAdd(gi(i), invariant_d[i]) ELSE ds[i]],
                    [i \in DOMAIN rs |->
                        IF i \in CellCVs(m)
                        THEN RSub(RMul(gi(i), a.voltage[i]),
                                  RMul(area_factor(i), a.current[i]))
                        ELSE rs[i]],
                    CellCVs(m) >>
        ELSE << [i \in DOMAIN ds |-> IF i \in CellCVs(m) THEN Zero ELSE ds[i]],
                [i \in DOMAIN rs |-> IF i \in CellCVs(m) THEN a.voltage[i] ELSE rs[i]],
                CellCVs(m) >>

\* One iteration of the loop over submatrices: cell m.  Returns <<d, rhs, acc>>,
\* acc being the set of indices of d and rhs written.
AssembleCell(ds, rs, m, a) ==
    LET dt == a.dt_intdom[cell_to_intdom[m]]
    IN  IF RPos(dt)
        THEN LET oodt_factor == RDiv(Milli, RMul(a.dt_coeff, dt))
                 area_factor(i) == RMul(Milli, cv_area[i])
                 gi(i) == RAdd(RMul(oodt_factor, cv_capacitance[i]),
                               RMul(area_factor(i), a.conductivity[i]))
             IN  << [i \in DOMAIN ds |->
                        IF i \in CellCVs(m) THEN RAdd(gi(i), invariant_d[i]) ELSE ds[i]],
                    [i \in DOMAIN rs |->
                        IF i \in CellCVs(m)
                        THEN RSub(RMul(gi(i), a.voltage[i]),
                                  RMul(area_factor(i), a.current[i]))
                        ELSE rs[i]],
                    CellCVs(m) >>
        ELSE << [i \in DOMAIN ds |-> IF i \in CellCVs(m) THEN Zero ELSE ds[i]],
                [i \in DOMAIN rs |-> IF i \in CellCVs(m) THEN a.voltage[i] ELSE rs[i]],
                CellCVs(m) >>

\* The loop over submatrices, visiting the cells in the order `order`.
RECURSIVE AssembleOrder(_, _, _, _)
AssembleOrder(ds, rs, order, a) ==
    IF order = <<>> THEN <<ds, rs>>
    ELSE LET r == AssembleCell(ds, rs, Head(order), a)
         IN  AssembleOrder(r[1], r[2], Tail(order), a)

\* ----------------------------------------------------------------- solve
\* Each sweep returns <<d, rhs, acc>>, acc being the set of indices of d and
\* rhs it has read or written.

\* backward sweep: for (i = last-1; i > first; --i)
RECURSIVE Backward(_, _, _, _, _)
Backward(i, first, ds, rs, acc) ==
    IF ~(i > first) THEN <<ds, rs, acc>>
    ELSE LET factor == RDiv(u[i], ds[i])
             pi == parent_index[i]
             ds1 == [ds EXCEPT ![pi] = RSub(@, RMul(factor, u[i]))]
             rs1 == [rs EXCEPT ![pi] = RSub(@, RMul(factor, rs[i]))]
         IN  Backward(i - 1, first, ds1, rs1, acc \cup {i, pi})

\* Faulty variant of Forward: the parent is taken to be the preceding CV.
RECURSIVE ForwardChain(_, _, _, _, _)
ForwardChain(i, last, ds, rs, acc) ==
    IF ~(i < last) THEN <<ds, rs, acc>>
    ELSE LET pi == i - 1
             r1 == RSub(rs[i], RMul(u[i], rs[pi]))
             rs1 == [rs EXCEPT ![i] = RDiv(r1, ds[i])]
         IN  ForwardChain(i + 1, last, ds, rs1, acc \cup {i, pi})

\* forward sweep: for (i = first+1; i < last; ++i)
RECURSIVE Forward(_, _, _, _, _)
Forward(i, last, ds, rs, acc) ==
    IF ~(i < last) THEN <<ds, rs, acc>>
    ELSE LET pi == parent_index[i]
             r1 == RSub(rs[i], RMul(u[i], rs[pi]))
             rs1 == [rs EXCEPT ![i] = RDiv(r1, ds[i])]
         IN  Forward(i + 1, last, ds, rs1, acc \cup {i, pi})

\* Faulty variant of SolveCell: the test d[first] != 0 is missing.
SolveCellUnguarded(ds, rs, m) ==
    LET first == First(m)
        last == Last(m)
        b == Backward(last - 1, first, ds, rs, {first})
        rs1 == [b[2] EXCEPT ![first] = RDiv(@, b[1][first])]
    IN  Forward(first + 1, last, b[1], rs1, b[3])

\* One iteration of the loop over submatrices: the cell with CVs [first, last).
SolveCell(ds, rs, m) ==
    LET first == First(m)
        last == Last(m)
    IN  IF RNonZero(ds[first])
        THEN LET b == Backward(last - 1, first, ds, rs, {first})
                 rs1 == [b[2] EXCEPT ![first] = RDiv(@, b[1][first])]
             IN  Forward(first + 1, last, b[1], rs1, b[3])
        ELSE <<ds, rs, {first}>>

\* The loop over submatrices, visiting the cells in the order `order`.
RECURSIVE SolveOrder(_, _, _)
SolveOrder(ds, rs, order) ==
    IF order = <<>> THEN <<ds, rs>>
    ELSE LET r == SolveCell(ds, rs, Head(order))
         IN  SolveOrder(r[1], r[2], Tail(order))

\* --------------------------------------------------------- step_explicit
\* Faulty variant of StepCurrent: the current is added to what rhs held before.
StepCurrentAccumulate(rs, a) ==
    [i \in DOMAIN rs |-> RAdd(rs[i], RMul(RMul(a.current[i], Milli), cv_area[i]))]

\* rhs[i] = current_density[i]*1e-3*cv_area[i], for every CV of the batch.
StepCurrent(rs, a) ==
    [i \in DOMAIN rs |-> RMul(RMul(a.current[i], Milli), cv_area[i])]

\* for (i = last; i-- > first; ) of a cell with dt_factor > 0; returns
\* <<rhs, acc>>, acc being the set of indices of rhs read or written.
RECURSIVE StepLoop(_, _, _, _, _, _)
StepLoop(i, first, rs, a, dt_factor, acc) ==
    IF ~(i >= first) THEN <<rs, acc>>
    ELSE LET pi == parent_index[i]
             rs1 == IF pi < i
                    THEN LET t == [rs EXCEPT ![pi] = RSub(@, RMul(u[i], a.voltage[i]))]
                         IN  [t EXCEPT ![i] = RSub(@, RMul(u[i], a.voltage[pi]))]
                    ELSE rs
             rs2 == [rs1 EXCEPT ![i] =
                        RSub(a.voltage[i],
                             RMul(RMul(dt_factor, cv_elastance[i]),
                                  RAdd(rs1[i], RMul(invariant_d[i], a.voltage[i]))))]
         IN  StepLoop(i - 1, first, rs2, a, dt_factor,
                      acc \cup (IF pi < i THEN {i, pi} ELSE {i}))

\* Faulty variant of StepCell: a cell that is not advanced copies the voltage of the
\* whole batch, not only of its own CVs.
StepCellWholeBatch(rs, m, a) ==
    LET dt_factor == RMul(a.dt_coeff, a.dt_intdom[cell_to_intdom[m]])
    IN  IF RPos(dt_factor)
        THEN StepLoop(Last(m) - 1, First(m), rs, a, dt_factor, {})
        ELSE << [i \in DOMAIN rs |-> a.voltage[i]], DOMAIN rs >>

\* One iteration of the loop over submatrices: cell m.
StepCell(rs, m, a) ==
    LET dt_factor == RMul(a.dt_coeff, a.dt_intdom[cell_to_intdom[m]])
    IN  IF RPos(dt_factor)
        THEN StepLoop(Last(m) - 1, First(m), rs, a, dt_factor, {})
        ELSE << [i \in DOMAIN rs |-> IF i \in CellCVs(m) THEN a.voltage[i] ELSE rs[i]],
                CellCVs(m) >>

\* The loop over submatrices, visiting the cells in the order `order`.
RECURSIVE StepOrder(_, _, _)
StepOrder(rs, order, a) ==
    IF order = <<>> THEN rs
    ELSE StepOrder(StepCell(rs, Head(order), a)[1], Tail(order), a)

\* make_span(0, ncells): the order in which the source visits the cells.
CellOrder == [k \in 1 .. ncells |-> k - 1]

\* -------------------------------------------------------------- inputs
\* The cell_cv_divs of a batch of n CVs cut after the CVs in cuts.
DivsOf(n, cuts) ==
    LET C == {0, n} \cup cuts
    IN  [j \in 0 .. (Cardinality(C) - 1) |->
            CHOOSE x \in C : Cardinality({y \in C : y < x}) = j]

\* The parent arrays of a batch with the given divisions: a root is its own
\* parent, any other CV has its parent in its cell at a smaller index.
ParentsOf(n, dv) ==
    LET nc == Cardinality(DOMAIN dv) - 1
        firstOf(i) == CHOOSE f \in {dv[m] : m \in 0 .. (nc - 1)} :
                         /\ f <= i
                         /\ \A g \in {dv[m] : m \in 0 .. (nc - 1)} : g <= i => g <= f
    IN  {p \in [0 .. (n - 1) -> 0 .. (n - 1)] :
            \A i \in 0 .. (n - 1) :
                IF firstOf(i) = i THEN p[i] = i
                ELSE firstOf(i) <= p[i] /\ p[i] < i}

\* Face conductance [uS]: zero for a root CV, positive otherwise.
CondOf(n, p) == [i \in 0 .. (n - 1) |-> IF p[i] = i THEN Zero ELSE R(i)]

\* A CV is degenerate (zero area, zero capacitance) or regular: every CV of
\* the batch is regular, or all but one, or none.
RegularSets(n) ==
    {0 .. (n - 1), {}} \cup {(0 .. (n - 1)) \ {i} : i \in 0 .. (n - 1)}
CapOf(n, regular) == [i \in 0 .. (n - 1) |-> IF i \in regular THEN R(2000) ELSE Zero]
AreaOf(n, regular) == [i \in 0 .. (n - 1) |-> IF i \in regular THEN R(1000) ELSE Zero]

\* Every cell in integration domain 0, or the cells alternating between two.
IntdomMaps(nc) == { [m \in 0 .. (nc - 1) |-> 0], [m \in 0 .. (nc - 1) |-> m % 2] }

nintdom == Cardinality({cell_to_intdom[m] : m \in Cells})

\* dt_intdom [ms], per integration domain: each domain is advanced by a
\* positive step or held (zero step), or every step is negative.
DtIntdoms ==
    [0 .. (nintdom - 1) -> {Zero, R(1)}] \cup {[k \in 0 .. (nintdom - 1) |-> R(-1)]}

\* The arguments of a call other than dt_intdom: a cell at rest (uniform
\* voltage, no current, no conductivity) and one with distinct values per CV.
Stimuli ==
    { [dt_coeff |-> R(1), voltage |-> [i \in CVs |-> R(1)],
       current |-> [i \in CVs |-> Zero], conductivity |-> [i \in CVs |-> Zero]],
      [dt_coeff |-> R(2), voltage |-> [i \in CVs |-> R(i + 2)],
       current |-> [i \in CVs |-> R(i + 1)], conductivity |-> [i \in CVs |-> R(i + 1)]] }

\* ----------------------------------------------------------------- Init
\* matrix_state(p, cell_cv_divs, cap, cond, area, cell_to_intdom)
Init ==
    \E n \in 1 .. MaxCV :
    \E cuts \in SUBSET (1 .. (n - 1)) :
    \E p \in ParentsOf(n, DivsOf(n, cuts)) :
    \E regular \in RegularSets(n) :
    \E c2i \in IntdomMaps(Cardinality(cuts) + 1) :
        LET cond == CondOf(n, p)
            cap == CapOf(n, regular)
            zeros == [i \in 0 .. (n - 1) |-> Zero]
            loop == CtorLoop(1, n, p, cond, zeros, zeros)
        IN  /\ parent_index = p
            /\ cell_cv_divs = DivsOf(n, cuts)
            /\ d = zeros
            /\ u = loop[1]
            /\ rhs = zeros
            /\ cv_capacitance = cap
            /\ cv_elastance = Elastance(cap)
            /\ face_conductance = cond
            /\ cv_area = AreaOf(n, regular)
            /\ cell_to_intdom = c2i
            /\ invariant_d = loop[2]
            /\ call = [op |-> "matrix_state", dt_coeff |-> Zero,
                       dt_intdom |-> [k \in 0 .. (Cardinality({c2i[m] : m \in DOMAIN c2i}) - 1) |-> Zero],
                       voltage |-> zeros, current |-> zeros, conductivity |-> zeros]
            /\ last_call = "matrix_state"
            /\ reused = FALSE
            /\ nsolve = 0
            /\ policy_call = NoPolicyCall
            /\ geom = NoGeometry
            /\ NoOthers

\* -------------------------------------------------------------- actions
assemble_implicit ==
    \E s \in Stimuli :
    \E dt_intdom \in DtIntdoms :
        LET a == [op |-> "assemble_implicit", dt_coeff |-> s.dt_coeff, dt_intdom |-> dt_intdom,
                  voltage |-> s.voltage, current |-> s.current,
                  conductivity |-> s.conductivity]
            r == AssembleOrder(d, rhs, CellOrder, a)
        IN  /\ d' = r[1]
            /\ rhs' = r[2]
            /\ call' = a
            /\ last_call' = "assemble_implicit"
            /\ reused' = (last_call # "matrix_state")
            /\ nsolve' = 0
            /\ UNCHANGED <<fields, policy_call, geom, others>>

\* Faulty variant of solve: the eliminated diagonal is stored in invariant_d as well.
solveIntoInvariant ==
    /\ nsolve < MaxSolves
    /\ \A i \in CVs : Small(d[i]) /\ Small(rhs[i])
    /\ LET r == SolveOrder(d, rhs, CellOrder)
       IN  /\ d' = r[1]
           /\ rhs' = r[2]
           /\ invariant_d' = r[1]
    /\ last_call' = "solve"
    /\ nsolve' = nsolve + 1
    /\ UNCHANGED <<call, reused, parent_index, cell_cv_divs, u, cv_capacitance,
                   cv_elastance, face_conductance, cv_area, cell_to_intdom,
                   policy_call, geom, others>>

solve ==
    /\ nsolve < MaxSolves
    /\ \A i \in CVs : Small(d[i]) /\ Small(rhs[i])
    /\ LET r == SolveOrder(d, rhs, CellOrder)
       IN  /\ d' = r[1]
           /\ rhs' = r[2]
    /\ last_call' = "solve"
    /\ nsolve' = nsolve + 1
    /\ UNCHANGED <<call, reused, fields, policy_call, geom, others>>

step_explicit ==
    \E s \in Stimuli :
    \E dt_intdom \in DtIntdoms :
        LET a == [op |-> "step_explicit", dt_coeff |-> s.dt_coeff, dt_intdom |-> dt_intdom,
                  voltage |-> s.voltage, current |-> s.current,
                  conductivity |-> [i \in CVs |-> Zero]]
        IN  /\ rhs' = StepOrder(StepCurrent(rhs, a), CellOrder, a)
            /\ call' = a
            /\ last_call' = "step_explicit"
            /\ reused' = (last_call # "matrix_state")
            /\ UNCHANGED <<d, nsolve, fields, policy_call, geom, others>>

\* solution(): a view of rhs.
solution == rhs

Next == assemble_implicit \/ solve \/ step_explicit

Spec == Init /\ [][Next]_vars

\* The batches of two or more cells whose CVs are all regular or all
\* degenerate (zero area, zero capacitance).
InitBatch ==
    /\ Init
    /\ ncells >= 2
    /\ \/ \A i \in CVs : cv_capacitance[i] # Zero
       \/ \A i \in CVs : cv_capacitance[i] = Zero /\ cv_area[i] = Zero

SpecBatch == InitBatch /\ [][Next]_vars

\* ------------------------------------------------- the tree-structured system
RECURSIVE SumOver(_, _)
SumOver(S, f) ==
    IF S = {} THEN Zero
    ELSE LET c == CHOOSE x \in S : TRUE
         IN  RAdd(f[c], SumOver(S \ {c}, f))

\* Row i of the Hines matrix with diagonal D and off-diagonal u, applied to x:
\* D[i]*x[i] + u[i]*x[parent(i)] + sum over the children c of i of u[c]*x[c].
TreeRow(i, D, x) ==
    RAdd(RAdd(RMul(D[i], x[i]),
              IF IsRoot(i) THEN Zero ELSE RMul(u[i], x[parent_index[i]])),
         SumOver(Children(i), [c \in CVs |-> RMul(u[c], x[c])]))

\* The dt of the integration domain of cell m in the recorded call.
DtOf(m) == call.dt_intdom[cell_to_intdom[m]]

\* g of CV i of cell m for the recorded call:
\* (1e-3/(dt_coeff*dt))*cv_capacitance[i] + 1e-3*cv_area[i]*conductivity[i].
AreaFactor(i) == RMul(Milli, cv_area[i])
Conductance(m, i) ==
    RAdd(RMul(RDiv(Milli, RMul(call.dt_coeff, DtOf(m))), cv_capacitance[i]),
         RMul(AreaFactor(i), call.conductivity[i]))

\* An assemble_implicit + solve cycle has just completed.
CycleDone == last_call = "solve" /\ call.op = "assemble_implicit" /\ nsolve = 1

\* ----------------------------------------------------------------- C1
\* C1 as stated: after assemble_implicit followed by solve(), in every cell
\* whose assembled d[first] /= 0 the solution x satisfies, for every CV i,
\* D[i]*x[i] + u[i]*x[parent(i)] + sum_c u[c]*x[c] = R[i], D and R being d and
\* rhs as assemble_implicit left them.
C1_SolveExactIfRootNonZero ==
    [][ (last_call = "assemble_implicit" /\ last_call' = "solve") =>
            \A m \in Cells :
                RNonZero(d[First(m)]) =>
                    \A i \in CellCVs(m) : TreeRow(i, d, rhs') = rhs[i] ]_vars

\* C1 restricted to the cells in which solve() divides by no zero, i.e. whose
\* diagonal entries are all non-zero after the backward sweep: there the
\* solution satisfies the system.
C1_SolveExact ==
    [][ (last_call = "assemble_implicit" /\ last_call' = "solve") =>
            \A m \in Cells :
                (RNonZero(d[First(m)]) /\ \A i \in CellCVs(m) : RNonZero(d'[i])) =>
                    \A i \in CellCVs(m) : TreeRow(i, d, rhs') = rhs[i] ]_vars

\* A cell with a fork at its root has been assembled with dt > 0 and solved.
C1_Witness ==
    /\ CycleDone
    /\ \E m \in Cells :
        /\ Cardinality(Children(First(m))) = 2
        /\ RPos(DtOf(m))
        /\ \A i \in CellCVs(m) : RNonZero(d[i]) /\ IsFinite(rhs[i])
        /\ \E i, j \in CellCVs(m) : rhs[i] # rhs[j]

\* ----------------------------------------------------------------- C2
\* C2: after assemble_implicit, for every CV i of a cell whose integration
\* domain has dt > 0, d[i] = g + invariant_d[i] and
\* rhs[i] = g*voltage[i] - area_factor*current[i], whatever d and rhs held before.
C2_AssembleValues ==
    last_call = "assemble_implicit" =>
        \A m \in Cells :
            RPos(DtOf(m)) =>
                \A i \in CellCVs(m) :
                    /\ d[i] = RAdd(Conductance(m, i), invariant_d[i])
                    /\ rhs[i] = RSub(RMul(Conductance(m, i), call.voltage[i]),
                                     RMul(AreaFactor(i), call.current[i]))

\* assemble_implicit has overwritten the d and rhs left by earlier calls, with
\* capacitance, conductivity and current all contributing.
C2_Witness ==
    /\ last_call = "assemble_implicit"
    /\ reused
    /\ \E m \in Cells : \E i \in CellCVs(m) :
        /\ RPos(DtOf(m))
        /\ RPos(cv_capacitance[i])
        /\ RPos(call.conductivity[i])
        /\ RPos(call.current[i])
        /\ Children(i) # {}

\* ----------------------------------------------------------------- C3
\* C3: for every CV i of the batch, u[i] = -face_conductance[i],
\* invariant_d[i] = face_conductance[i] + the sum of face_conductance[c] over
\* the children c of i, and invariant_d[i] + u[i] + sum_c u[c] = 0; the roots of
\* the second and later cells included.
C3_InvariantDiagonal ==
    \A i \in CVs :
        /\ u[i] = RNeg(face_conductance[i])
        /\ invariant_d[i] = RAdd(face_conductance[i], SumOver(Children(i), face_conductance))
        /\ RAdd(RAdd(invariant_d[i], u[i]), SumOver(Children(i), u)) = Zero

\* A freshly constructed batch whose second or later cell has a root with children.
C3_Witness ==
    /\ last_call = "matrix_state"
    /\ \E m \in Cells :
        /\ m >= 1
        /\ Children(First(m)) # {}
        /\ RPos(invariant_d[First(m)])

\* ----------------------------------------------------------------- C4
\* C4: after assemble_implicit, every CV i of a cell whose domain has dt <= 0
\* has d[i] = 0 and rhs[i] = voltage[i], and in the same call the CVs of the
\* cells whose domain has dt > 0 hold the assembled diagonal.
C4_FrozenCells ==
    last_call = "assemble_implicit" =>
        \A m \in Cells : \A i \in CellCVs(m) :
            IF RPos(DtOf(m))
            THEN d[i] = RAdd(Conductance(m, i), invariant_d[i])
            ELSE d[i] = Zero /\ rhs[i] = call.voltage[i]

\* One call has frozen one cell and assembled another.
C4_Witness ==
    /\ last_call = "assemble_implicit"
    /\ \E m1, m2 \in Cells :
        /\ ~RPos(DtOf(m1))
        /\ RPos(DtOf(m2))
        /\ \A i \in CellCVs(m1) : RNonZero(rhs[i])
        /\ \E i \in CellCVs(m2) : RNonZero(d[i])

\* ----------------------------------------------------------------- C5
\* C5: solve() leaves d and rhs untouched on the CV range of every cell whose
\* d[first] is 0 when it is called; hence after assemble_implicit + solve the
\* solution of a cell with dt <= 0 is the voltage passed to assemble_implicit.
C5_SolveSkipsFrozen ==
    [][ last_call' = "solve" =>
            \A m \in Cells :
                /\ d[First(m)] = Zero =>
                        \A i \in CellCVs(m) : d'[i] = d[i] /\ rhs'[i] = rhs[i]
                /\ (last_call = "assemble_implicit" /\ ~RPos(DtOf(m))) =>
                        \A i \in CellCVs(m) : rhs'[i] = call.voltage[i] ]_vars

\* After one assemble_implicit + solve a frozen cell still holds its voltage
\* beside a cell that was solved.
C5_Witness ==
    /\ CycleDone
    /\ \E m1, m2 \in Cells :
        /\ ~RPos(DtOf(m1))
        /\ \A i \in CellCVs(m1) : rhs[i] = call.voltage[i] /\ RNonZero(rhs[i])
        /\ RPos(DtOf(m2))
        /\ \E i \in CellCVs(m2) : RNonZero(d[i]) /\ rhs[i] # call.voltage[i]

\* ----------------------------------------------------------------- C6
\* Every order in which the loop over submatrices can visit the cells.
CellOrders ==
    {[k \in 1 .. ncells |-> f[k - 1]] : f \in Permutations(Cells)}

\* C6: in assemble_implicit, solve and step_explicit the work done for one cell
\* reads and writes d and rhs only at the CVs of that cell, and the d and rhs a
\* call leaves are those of every order of visiting the cells.  Checked on the
\* batches of two or more cells (SpecBatch).
C6_CellsIndependent ==
    [][ /\ last_call' = "assemble_implicit" =>
            /\ \A o \in CellOrders : AssembleOrder(d, rhs, o, call') = <<d', rhs'>>
            /\ \A m \in Cells : AssembleCell(d, rhs, m, call')[3] \subseteq CellCVs(m)
        /\ last_call' = "solve" =>
            /\ \A o \in CellOrders : SolveOrder(d, rhs, o) = <<d', rhs'>>
            /\ \A m \in Cells : SolveCell(d, rhs, m)[3] \subseteq CellCVs(m)
        /\ last_call' = "step_explicit" =>
            /\ \A o \in CellOrders : StepOrder(StepCurrent(rhs, call'), o, call') = rhs'
            /\ \A m \in Cells :
                  StepCell(StepCurrent(rhs, call'), m, call')[2] \subseteq CellCVs(m) ]_vars

\* A batch of at least two cells, one advanced and one held in the same call,
\* the advanced one having a CV with a parent.
C6_Witness ==
    /\ last_call \in {"solve", "step_explicit"}
    /\ ncells >= 2
    /\ \E m1, m2 \in Cells :
        /\ RPos(DtOf(m1))
        /\ ~RPos(DtOf(m2))
        /\ Cardinality(CellCVs(m1)) >= 2
        /\ \E i \in CellCVs(m1) : rhs[i] # call.voltage[i]

\* ----------------------------------------------------------------- C7
\* C7: no call of assemble_implicit, solve or step_explicit changes
\* invariant_d, u, parent_index, cell_cv_divs, face_conductance,
\* cv_capacitance or cv_area (nor cv_elastance, cell_to_intdom): only d and
\* rhs change.
C7_FieldsFrozen ==
    [][ /\ invariant_d' = invariant_d
        /\ u' = u
        /\ parent_index' = parent_index
        /\ cell_cv_divs' = cell_cv_divs
        /\ face_conductance' = face_conductance
        /\ cv_capacitance' = cv_capacitance
        /\ cv_area' = cv_area
        /\ cv_elastance' = cv_elastance
        /\ cell_to_intdom' = cell_to_intdom ]_vars

\* All three operations have been called, the last being a solve() that
\* left a diagonal different from invariant_d.
C7_Witness ==
    /\ last_call = "solve"
    /\ call.op = "step_explicit"
    /\ reused
    /\ \E i \in CVs : Children(i) # {} /\ RNonZero(d[i]) /\ d[i] # invariant_d[i]

\* ----------------------------------------------------------------- C8
Zeros == [i \in CVs |-> Zero]

\* The solution of the recorded call made on a freshly constructed matrix_state.
FreshCycle ==
    LET a == AssembleOrder(Zeros, Zeros, CellOrder, call)
    IN  SolveOrder(a[1], a[2], CellOrder)[2]
FreshStep == StepOrder(StepCurrent(Zeros, call), CellOrder, call)

\* C8: whatever calls came before, the solution after an assemble_implicit +
\* solve cycle, or after a step_explicit call, is the one the same call gives
\* on a freshly constructed matrix_state.
C8_NoCarriedState ==
    /\ CycleDone => solution = FreshCycle
    /\ last_call = "step_explicit" => solution = FreshStep

\* A cycle or a step has completed on a matrix_state used before, with a
\* cell advanced and a non-zero current.
C8_Witness ==
    /\ CycleDone \/ last_call = "step_explicit"
    /\ reused
    /\ \E m \in Cells : \E i \in CellCVs(m) :
        /\ RPos(DtOf(m))
        /\ RPos(cv_area[i])
        /\ RPos(call.current[i])
        /\ IsFinite(solution[i])
        /\ solution[i] # call.voltage[i]

\* ----------------------------------------------------------------- C9
\* A CV with zero area and zero capacitance.
Degenerate(i) == cv_area[i] = Zero /\ cv_capacitance[i] = Zero

\* C9 as stated: in a batch containing a CV of zero area and zero capacitance,
\* no operation divides by zero (no elastance, diagonal or right-hand side is
\* infinite or NaN), and after a cycle or an explicit step the solution at
\* such a CV is the voltage it was given.
C9_DegenerateCVSafe ==
    (\E i \in CVs : Degenerate(i)) =>
        /\ \A i \in CVs : IsFinite(cv_elastance[i]) /\ IsFinite(d[i]) /\ IsFinite(rhs[i])
        /\ (CycleDone \/ last_call = "step_explicit") =>
               \A i \in CVs : Degenerate(i) => solution[i] = call.voltage[i]

\* ----------------------------------------------------------------- C10
\* I[i] = current_density[i]*1e-3*cv_area[i] of the recorded call.
StepCurrentOf(i) == RMul(RMul(call.current[i], Milli), cv_area[i])

\* C10 as stated: after step_explicit, in every cell with dt_coeff*dt > 0 (and
\* finite elastances) solution[i] = v[i] - dt*elastance[i]*((A v)[i] + I[i]), A
\* having diagonal invariant_d and off-diagonal u; elsewhere solution[i] = v[i].
C10_ExplicitEuler ==
    last_call = "step_explicit" =>
        \A m \in Cells :
            LET dt_factor == RMul(call.dt_coeff, DtOf(m))
            IN  IF RPos(dt_factor)
                THEN (\A j \in CellCVs(m) : IsFinite(cv_elastance[j])) =>
                        \A i \in CellCVs(m) :
                            solution[i] =
                                RSub(call.voltage[i],
                                     RMul(RMul(dt_factor, cv_elastance[i]),
                                          RAdd(TreeRow(i, invariant_d, call.voltage),
                                               StepCurrentOf(i))))
                ELSE \A i \in CellCVs(m) : solution[i] = call.voltage[i]

\* ----------------------------------------------------------------- C11
\* C11 as stated: solve() completes only on a freshly assembled state, i.e.
\* directly after an assemble_implicit; on a never-assembled or stale state
\* it fails an assertion instead of returning.
C11_SolveOnlyAfterAssemble ==
    last_call = "solve" => CycleDone

\* ======================================================================
\* CV policies: cv_policy::cv_boundary_points(cell)
\*
\* A location is <<branch, pos>> and a cable is <<branch, prox_pos,
\* dist_pos>>, with positions as rationals.  A locset is modelled by the set
\* of its locations (multiplicities are not modelled).  Positions are exact;
\* the one place where the rounding of doubles decides an integer, the CV
\* count std::ceil(cable_length*oomax_extent), is computed bit for bit.
\* ======================================================================

\* ---------------------------------------------------------------- bounds
\* Largest number of branches of a morphology.
MaxBranches == 3
\* Largest cv_per_branch of cv_policy_fixed_per_branch.
MaxPerBranch == 3

\* Number of significand bits of a double.
Precision == 53

\* ---------------------------------------------------------- morphologies
\* msize_t(-1): the parent of a root branch.
mnpos == -1

Half == <<1, 2>>
One == <<1, 1>>

RLeq(a, b) == a[1] * b[2] <= b[1] * a[2]

Pow2(k) == 2 ^ k

\* morphology::branch_parent: every branch has a parent of smaller id or
\* mnpos, and a branch ends in a fork (two or more children) or is terminal.
BranchParents(nb) ==
    IF nb = 0 THEN {<< >>}
    ELSE {p \in [0 .. (nb - 1) -> {mnpos} \cup (0 .. (nb - 2))] :
            /\ p[0] = mnpos
            /\ \A b \in 0 .. (nb - 1) : p[b] < b
            /\ \A b \in 0 .. (nb - 1) : Cardinality({c \in 0 .. (nb - 1) : p[c] = b}) # 1}

\* Branch lengths in micrometres: all branches equally long, or branch b of
\* length 2^b.
BranchLengthValues == {1, 273}
BranchLengths(nb) ==
    {[b \in 0 .. (nb - 1) |-> l] : l \in BranchLengthValues}
        \cup {[b \in 0 .. (nb - 1) |-> Pow2(b)]}

\* cable_cell: the morphology and its embedding.
CableCells ==
    UNION {{[parent |-> p, length |-> l] : p \in BranchParents(nb), l \in BranchLengths(nb)} :
             nb \in 0 .. MaxBranches}

num_branches(cell) == Cardinality(DOMAIN cell.parent)
branches(cell) == DOMAIN cell.parent
branch_children(cell, b) == {c \in branches(cell) : cell.parent[c] = b}

\* embedding::integrate_length(cable) on branches of constant length density.
integrate_length(cell, c) == RMul(R(cell.length[c[1]]), RSub(c[3], c[2]))

\* The sample points of the morphology as locations: the root, the distal
\* end of every branch, and the middle of the branches of length 2 or more.
samples(cell) ==
    {<<b, Zero>> : b \in {b \in branches(cell) : cell.parent[b] = mnpos}}
        \cup {<<b, One>> : b \in branches(cell)}
        \cup {<<b, Half>> : b \in {b \in branches(cell) : cell.length[b] >= 2}}

\* ------------------------------------------------------ regions, locsets
\* reg::all(), and regions given by explicit cable lists.
AllRegion == [all |-> TRUE, cables |-> {}]
CableList(cs) == [all |-> FALSE, cables |-> cs]
Domains ==
    {AllRegion}
        \cup {CableList({<<b, Half, One>>}) : b \in 0 .. (MaxBranches - 1)}
        \cup {CableList({<<0, Half, One>>, <<MaxBranches - 1, Zero, One>>})}

\* thingify(region, provider) fails on a cable of a branch the morphology
\* does not have.
no_such_branch(domain, cell) ==
    \E c \in domain.cables : c[1] \notin branches(cell)

thingify(domain, cell) ==
    IF domain.all THEN {<<b, Zero, One>> : b \in branches(cell)}
    ELSE domain.cables

\* ls::boundary(region): the proximal ends of the cables that do not
\* continue a cable of the region on the parent branch, and the distal ends
\* of the cables that are not continued on a child branch.
boundary(domain, cell) ==
    LET cables == thingify(domain, cell)
        continues(c2, c) ==
            c2[1] = cell.parent[c[1]] /\ c2[3] = One /\ c[2] = Zero
    IN  {<<c[1], c[2]>> : c \in {c \in cables : ~\E c2 \in cables : continues(c2, c)}}
            \cup {<<c[1], c[3]>> : c \in {c \in cables : ~\E c2 \in cables : continues(c, c2)}}

\* ls::restrict(locset, region)
restrict(locs, domain, cell) ==
    {x \in locs : \E c \in thingify(domain, cell) :
                     c[1] = x[1] /\ RLeq(c[2], x[2]) /\ RLeq(x[2], c[3])}

\* ls::on_branches(pos)
on_branches(pos, cell) == {<<b, pos>> : b \in branches(cell)}

\* ls::nil(), and the two outcomes of a call.
nil == {}
Returned(locset) == [thrown |-> "", locset |-> locset]
Thrown(e) == [thrown |-> e, locset |-> nil]

\* -------------------------------------------- rounding of doubles
\* A positive double is [mant, exp]: mant = <<m2, m1, m0>> holds the
\* Precision significand bits as the number m2 * Limb^2 + m1 * Limb + m0,
\* with Top <= m2 < 2 * Top and m1, m0 < Limb; the value of the double is
\* that number times 2^(exp - Precision + 1).
Limb == Pow2(18)
Top == Pow2(Precision - 37)

\* The exponent of a power of two.
Log2(p) == CHOOSE e \in 0 .. 30 : Pow2(e) = p

\* The number of binary digits of n < 2^30.
BitLength(n) == CHOOSE s \in 0 .. 30 : n < Pow2(s) /\ (s = 0 \/ Pow2(s - 1) <= n)

\* Round to nearest, ties to even: mant holds the Precision leading bits of
\* the exact value (leading bit of weight 2^exp), guard is its next bit and
\* sticky says that it has further non-zero bits beyond the guard bit.
RoundNearestEven(mant, guard, sticky, exp) ==
    LET up == guard = 1 /\ (sticky \/ mant[3] % 2 = 1)
        m0 == mant[3] + 1
        m1 == mant[2] + (m0 \div Limb)
        m2 == mant[1] + (m1 \div Limb)
    IN  IF ~up THEN [mant |-> mant, exp |-> exp]
        ELSE IF m2 = 2 * Top THEN [mant |-> <<Top, 0, 0>>, exp |-> exp + 1]
        ELSE [mant |-> <<m2, m1 % Limb, m0 % Limb>>, exp |-> exp]

\* The double nearest to 1/x, for x = n/2^k with 0 < n < 2^13 (1./x): long
\* division of 2^s by n, a limb at a time, 2^s the least power of two >= n.
Reciprocal(x) ==
    LET n == x[1]
        k == Log2(x[2])
        s == CHOOSE e \in 0 .. 13 : Pow2(e) >= n /\ (e = 0 \/ Pow2(e - 1) < n)
        t2 == Pow2(s) * Top
        t1 == (t2 % n) * Limb
        t0 == (t1 % n) * Limb
        tg == (t0 % n) * 2
    IN  RoundNearestEven(<<t2 \div n, t1 \div n, t0 \div n>>,
                         tg \div n, tg % n # 0, k - s)

\* The double nearest to x*y, for x = a/2^j with 0 < a < 2^13 and a double y
\* (x*y): long multiplication of the significand by a, then the shift that
\* brings the product back to Precision bits.
Product(x, y) ==
    LET a == x[1]
        j == Log2(x[2])
        t0 == a * y.mant[3]
        t1 == a * y.mant[2] + (t0 \div Limb)
        t2 == a * y.mant[1] + (t1 \div Limb)
        p1 == t1 % Limb
        p0 == t0 % Limb
        e == BitLength(t2) - BitLength(Top)
        h == Pow2(e)
        mant == <<t2 \div h,
                  (p1 \div h) + (t2 % h) * (Limb \div h),
                  (p0 \div h) + (p1 % h) * (Limb \div h)>>
        guard == IF e = 0 THEN 0 ELSE (p0 \div (h \div 2)) % 2
        sticky == e > 1 /\ p0 % (h \div 2) # 0
    IN  RoundNearestEven(mant, guard, sticky, y.exp + e - j)

\* std::ceil of a positive double below 2^16.
Ceil(y) ==
    IF y.exp < 0 THEN 1
    ELSE LET h == Top \div Pow2(y.exp)
         IN  (y.mant[1] \div h)
               + (IF y.mant[1] % h # 0 \/ y.mant[2] # 0 \/ y.mant[3] # 0 THEN 1 ELSE 0)

\* -------------------------------------------------------------- policies
Flags == {"none", "interior_forks"}

\* Faulty variant of cv_policy_explicit: the locations on branches that the
\* morphology does not have are dropped.
cv_policy_explicitOnMorphology(locs, cell) ==
    Returned({x \in locs : x[1] \in branches(cell)})

\* cv_policy_explicit::cv_boundary_points
cv_policy_explicit(locs, cell) == Returned(locs)

\* Faulty variant of cv_policy_fixed_per_branch: the points are spaced by
\* length, cv_per_branch to the micrometre, not by normalized position.
cv_policy_fixed_per_branchByLength(cv_per_branch, domain, flags, cell) ==
    IF num_branches(cell) = 0 THEN Returned(nil)
    ELSE IF no_such_branch(domain, cell) THEN Thrown("no_such_branch")
    ELSE LET ooncv == RDiv(One, R(cv_per_branch))
             on(c) ==
                 LET scale == RDiv(RMul(RSub(c[3], c[2]), ooncv), R(cell.length[c[1]]))
                 IN  IF flags = "interior_forks"
                     THEN {<<c[1], RDiv(RMul(R(1 + 2 * i), scale), R(2))>> :
                             i \in 0 .. (cv_per_branch - 1)}
                     ELSE {<<c[1], RMul(R(i), scale)>> : i \in 0 .. (cv_per_branch - 1)}
                            \cup {<<c[1], c[3]>>}
             points == UNION {on(c) : c \in thingify(domain, cell)}
         IN  Returned(points \cup boundary(domain, cell))

\* cv_policy_fixed_per_branch::cv_boundary_points
cv_policy_fixed_per_branch(cv_per_branch, domain, flags, cell) ==
    IF num_branches(cell) = 0 THEN Returned(nil)
    ELSE IF no_such_branch(domain, cell) THEN Thrown("no_such_branch")
    ELSE LET ooncv == RDiv(One, R(cv_per_branch))
             on(c) ==
                 LET scale == RMul(RSub(c[3], c[2]), ooncv)
                 IN  IF flags = "interior_forks"
                     THEN {<<c[1], RDiv(RMul(R(1 + 2 * i), scale), R(2))>> :
                             i \in 0 .. (cv_per_branch - 1)}
                     ELSE {<<c[1], RMul(R(i), scale)>> : i \in 0 .. (cv_per_branch - 1)}
                            \cup {<<c[1], c[3]>>}
             points == UNION {on(c) : c \in thingify(domain, cell)}
         IN  Returned(points \cup boundary(domain, cell))

\* unsigned ncv = std::ceil(cable_length*oomax_extent), oomax_extent = 1./max_extent_
ncv_of(cable_length, max_extent) ==
    IF cable_length[1] = 0 THEN 0
    ELSE Ceil(Product(cable_length, Reciprocal(max_extent)))

\* cv_policy_max_extent::cv_boundary_points
cv_policy_max_extent(max_extent, domain, flags, cell) ==
    IF num_branches(cell) = 0 \/ ~RPos(max_extent) THEN Returned(nil)
    ELSE IF no_such_branch(domain, cell) THEN Thrown("no_such_branch")
    ELSE LET on(c) ==
                 LET ncv == ncv_of(integrate_length(cell, c), max_extent)
                     scale == RDiv(RSub(c[3], c[2]), R(ncv))
                 IN  IF flags = "interior_forks"
                     THEN {<<c[1], RAdd(c[2], RDiv(RMul(R(1 + 2 * i), scale), R(2)))>> :
                             i \in 0 .. (ncv - 1)}
                     ELSE {<<c[1], RMul(R(i), scale)>> : i \in 0 .. (ncv - 1)}
                            \cup {<<c[1], c[3]>>}
             points == UNION {on(c) : c \in thingify(domain, cell)}
         IN  Returned(points \cup boundary(domain, cell))

\* Faulty variant of cv_policy_every_sample: no test for an empty morphology.
cv_policy_every_sampleUnguarded(domain, cell) ==
    IF no_such_branch(domain, cell) THEN Thrown("no_such_branch")
    ELSE Returned(boundary(domain, cell)
                    \cup restrict(on_branches(Zero, cell) \cup samples(cell), domain, cell))

\* cv_policy_every_sample::cv_boundary_points
cv_policy_every_sample(domain, cell) ==
    IF num_branches(cell) = 0 THEN Returned(nil)
    ELSE IF no_such_branch(domain, cell) THEN Thrown("no_such_branch")
    ELSE Returned(boundary(domain, cell)
                    \cup restrict(on_branches(Zero, cell) \cup samples(cell), domain, cell))

\* cv_policy_single::cv_boundary_points
cv_policy_single(domain, cell) ==
    IF num_branches(cell) = 0 THEN Returned(nil)
    ELSE IF no_such_branch(domain, cell) THEN Thrown("no_such_branch")
    ELSE Returned(boundary(domain, cell))

\* ------------------------------------------------- calls of the policies
\* The matrix back end does not exist while cells are being discretized.
NoMatrix ==
    /\ parent_index = << >> /\ cell_cv_divs = << >> /\ d = << >> /\ u = << >>
    /\ rhs = << >> /\ cv_capacitance = << >> /\ cv_elastance = << >>
    /\ face_conductance = << >> /\ cv_area = << >> /\ cell_to_intdom = << >>
    /\ invariant_d = << >> /\ call = [op |-> "none"] /\ last_call = "none"
    /\ reused = FALSE /\ nsolve = 0

\* max_extent_ in micrometres, and the locsets given to cv_policy_explicit.
Extents == {Zero, <<1, 4>>, One, <<91, 1>>}
ExplicitLocsets == SUBSET {<<0, Zero>>, <<0, Half>>, <<0, One>>, <<1, Half>>}

PolicyCall(policy, cv_per_branch, max_extent, locs, domain, flags, cell) ==
    [policy |-> policy, cv_per_branch |-> cv_per_branch, max_extent |-> max_extent,
     locs |-> locs, domain |-> domain, flags |-> flags, cell |-> cell,
     result |-> Thrown("pending")]

\* A policy object and the cell it is about to be applied to.
PolicyCalls ==
    {PolicyCall("explicit", 0, Zero, locs, AllRegion, "none", cell) :
        locs \in ExplicitLocsets, cell \in CableCells}
    \cup {PolicyCall("fixed_per_branch", n, Zero, nil, domain, flags, cell) :
        n \in 1 .. MaxPerBranch, domain \in Domains, flags \in Flags, cell \in CableCells}
    \cup {PolicyCall("max_extent", 0, max_extent, nil, domain, flags, cell) :
        max_extent \in Extents, domain \in Domains, flags \in Flags, cell \in CableCells}
    \cup {PolicyCall(policy, 0, Zero, nil, domain, "none", cell) :
        policy \in {"every_sample", "single"}, domain \in Domains, cell \in CableCells}

InitPolicy ==
    /\ NoMatrix
    /\ policy_call \in PolicyCalls
    /\ geom = NoGeometry
    /\ NoOthers

pending(policy) ==
    policy_call.policy = policy /\ policy_call.result = Thrown("pending")

explicit_cv_boundary_points ==
    /\ pending("explicit")
    /\ policy_call' = [policy_call EXCEPT !.result =
           cv_policy_explicit(policy_call.locs, policy_call.cell)]
    /\ UNCHANGED <<parent_index, cell_cv_divs, d, u, rhs, cv_capacitance,
                   cv_elastance, face_conductance, cv_area, cell_to_intdom,
                   invariant_d, call, last_call, reused, nsolve, geom, others>>

fixed_per_branch_cv_boundary_points ==
    /\ pending("fixed_per_branch")
    /\ policy_call' = [policy_call EXCEPT !.result =
           cv_policy_fixed_per_branch(policy_call.cv_per_branch, policy_call.domain,
                                      policy_call.flags, policy_call.cell)]
    /\ UNCHANGED <<parent_index, cell_cv_divs, d, u, rhs, cv_capacitance,
                   cv_elastance, face_conductance, cv_area, cell_to_intdom,
                   invariant_d, call, last_call, reused, nsolve, geom, others>>

max_extent_cv_boundary_points ==
    /\ pending("max_extent")
    /\ policy_call' = [policy_call EXCEPT !.result =
           cv_policy_max_extent(policy_call.max_extent, policy_call.domain,
                                policy_call.flags, policy_call.cell)]
    /\ UNCHANGED <<parent_index, cell_cv_divs, d, u, rhs, cv_capacitance,
                   cv_elastance, face_conductance, cv_area, cell_to_intdom,
                   invariant_d, call, last_call, reused, nsolve, geom, others>>

every_sample_cv_boundary_points ==
    /\ pending("every_sample")
    /\ policy_call' = [policy_call EXCEPT !.result =
           cv_policy_every_sample(policy_call.domain, policy_call.cell)]
    /\ UNCHANGED <<parent_index, cell_cv_divs, d, u, rhs, cv_capacitance,
                   cv_elastance, face_conductance, cv_area, cell_to_intdom,
                   invariant_d, call, last_call, reused, nsolve, geom, others>>

single_cv_boundary_points ==
    /\ pending("single")
    /\ policy_call' = [policy_call EXCEPT !.result =
           cv_policy_single(policy_call.domain, policy_call.cell)]
    /\ UNCHANGED <<parent_index, cell_cv_divs, d, u, rhs, cv_capacitance,
                   cv_elastance, face_conductance, cv_area, cell_to_intdom,
                   invariant_d, call, last_call, reused, nsolve, geom, others>>

NextPolicy ==
    \/ explicit_cv_boundary_points
    \/ fixed_per_branch_cv_boundary_points
    \/ max_extent_cv_boundary_points
    \/ every_sample_cv_boundary_points
    \/ single_cv_boundary_points

SpecPolicy == InitPolicy /\ [][NextPolicy]_vars

\* The call has returned (or thrown).
returned(policy) ==
    policy_call.policy = policy /\ policy_call.result # Thrown("pending")

\* ----------------------------------------------------------------- C15
\* C15: on a whole-cell domain, cv_policy_fixed_per_branch(n) without
\* interior_forks returns on every branch exactly the n+1 points at the
\* normalized positions i/n, i = 0..n, whatever the length of the branch.
C15_FixedPerBranchPoints ==
    (/\ returned("fixed_per_branch")
     /\ policy_call.domain = AllRegion
     /\ policy_call.flags = "none")
        => policy_call.result =
               Returned({<<b, Norm(i, policy_call.cv_per_branch)>> :
                           b \in branches(policy_call.cell),
                           i \in 0 .. policy_call.cv_per_branch})

\* The policy has divided the branches of a forked cell, which differ in
\* length, into two or more CVs each.
C15_Witness ==
    /\ returned("fixed_per_branch")
    /\ policy_call.domain = AllRegion
    /\ policy_call.flags = "none"
    /\ policy_call.cv_per_branch >= 2
    /\ \E b \in branches(policy_call.cell) : policy_call.cell.parent[b] # mnpos
    /\ \E b1, b2 \in branches(policy_call.cell) :
           policy_call.cell.length[b1] # policy_call.cell.length[b2]

\* ----------------------------------------------------------------- C16
\* C16 as stated: every boundary point that a policy restricted to a region
\* returns lies on a cable of the region, and fixed_per_branch(n, region,
\* interior_forks) returns on each cable [p,d] of the region the n points
\* p + (2i+1)(d-p)/(2n), i = 0..n-1, next to the boundary of the region.
InRegion(x, cables) ==
    \E c \in cables : c[1] = x[1] /\ RLeq(c[2], x[2]) /\ RLeq(x[2], c[3])

C16_RegionRelativePoints ==
    LET cables == thingify(policy_call.domain, policy_call.cell)
        n == policy_call.cv_per_branch
    IN  /\ (/\ policy_call.policy \in {"fixed_per_branch", "max_extent",
                                       "every_sample", "single"}
            /\ policy_call.result.thrown = "")
               => \A x \in policy_call.result.locset : InRegion(x, cables)
        /\ (/\ returned("fixed_per_branch")
            /\ policy_call.flags = "interior_forks"
            /\ policy_call.result.thrown = ""
            /\ num_branches(policy_call.cell) > 0)
               => policy_call.result.locset =
                      {<<c[1], RAdd(c[2], RDiv(RMul(R(2 * i + 1), RSub(c[3], c[2])),
                                               R(2 * n)))>> :
                          c \in cables, i \in 0 .. (n - 1)}
                        \cup boundary(policy_call.domain, policy_call.cell)

\* ----------------------------------------------------------------- C17
\* C17 as stated: cv_policy_max_extent(L), L > 0, divides every branch of
\* length l into exactly ceil(l/L) CVs of equal normalized extent: its
\* boundary points on the branch are i/N, i = 0..N, with N = ceil(l/L) (the
\* odd multiples of 1/(2N), and the ends of the cell, with interior_forks).
CeilDiv(a, b) ==
    LET q == RDiv(a, b) IN (q[1] + q[2] - 1) \div q[2]

C17_MaxExtentCount ==
    (/\ returned("max_extent")
     /\ RPos(policy_call.max_extent)
     /\ policy_call.domain = AllRegion)
        => LET cell == policy_call.cell
               N(b) == CeilDiv(R(cell.length[b]), policy_call.max_extent)
           IN  policy_call.result =
                   Returned(IF policy_call.flags = "interior_forks"
                            THEN UNION {{<<b, Norm(2 * i + 1, 2 * N(b))>> :
                                           i \in 0 .. (N(b) - 1)} : b \in branches(cell)}
                                   \cup boundary(AllRegion, cell)
                            ELSE UNION {{<<b, Norm(i, N(b))>> : i \in 0 .. N(b)} :
                                           b \in branches(cell)})

\* ----------------------------------------------------------------- C18
\* C18: on an empty morphology the fixed_per_branch, max_extent,
\* every_sample and single policies return the empty locset, whatever their
\* parameters, flags and domain.
C18_EmptyMorphologyNil ==
    (/\ policy_call.policy \in {"fixed_per_branch", "max_extent", "every_sample", "single"}
     /\ policy_call.result # Thrown("pending")
     /\ num_branches(policy_call.cell) = 0)
        => policy_call.result = Returned(nil)

\* A policy whose domain is a list of cables has been applied to the empty
\* morphology, which has none of their branches.
C18_Witness ==
    /\ returned("every_sample")
    /\ num_branches(policy_call.cell) = 0
    /\ policy_call.domain # AllRegion

MaxGeomBranches == 5
MaxCells == 3

RLess(a, b) == a[1] * b[2] < b[1] * a[2]

\* operator< of mlocation (branch, pos) and of mcable (branch, prox_pos,
\* dist_pos): lexicographic.
less(x, y) ==
    \/ x[1] < y[1]
    \/ /\ x[1] = y[1]
       /\ \E k \in 2 .. Len(x) :
             RLess(x[k], y[k]) /\ \A j \in 2 .. (k - 1) : x[j] = y[j]

\* util::sort of a collection without repeated elements.
sort(S) ==
    [i \in 1 .. Cardinality(S) |->
        CHOOSE x \in S : Cardinality({y \in S : less(y, x)}) = i - 1]

\* A default-constructed cv_geometry.
EmptyGeometry ==
    [cv_cables |-> << >>, cv_cables_divs |-> << >>, cv_parent |-> << >>,
     cv_to_cell |-> << >>, cell_cv_divs |-> << >>]

\* cv_geometry::size(), n_cell(), cables(cv_index), cell_cv_interval(cell_idx);
\* CVs and cells are numbered from 0.
cv_geometry_size(g) == Len(g.cv_parent)
n_cell(g) == IF g.cell_cv_divs = << >> THEN 0 ELSE Len(g.cell_cv_divs) - 1
cables(g, cv_index) ==
    SubSeq(g.cv_cables, g.cv_cables_divs[cv_index + 1] + 1, g.cv_cables_divs[cv_index + 2])
cell_cv_interval(g, cell_idx) ==
    <<g.cell_cv_divs[cell_idx + 1], g.cell_cv_divs[cell_idx + 2]>>

\* The condition of the arb_assert in cv_geometry::size().
size_assertion(g) ==
    \/ (g.cv_parent = << >> /\ g.cv_cables_divs = << >>
          /\ g.cv_cables = << >> /\ g.cv_to_cell = << >>)
    \/ (Len(g.cv_parent) + 1 = Len(g.cv_cables_divs)
          /\ Len(g.cv_parent) = Len(g.cv_to_cell)
          /\ g.cv_to_cell # << >>
          /\ g.cv_to_cell[Len(g.cv_to_cell)] + 1 = Len(g.cell_cv_divs) - 1)

\* Faulty variant of canonicalize: every location is its own canonical form.
canonicalizeVerbatim(loc, cell) == loc

\* em_morphology::canonicalize: the start of a branch is the end of its
\* parent branch, or the root (0, 0).
canonicalize(loc, cell) ==
    IF loc[2] # Zero THEN loc
    ELSE IF cell.parent[loc[1]] = mnpos THEN <<0, Zero>>
    ELSE <<cell.parent[loc[1]], One>>

\* ls::terminal(), ls::root()
terminal(cell) == {<<b, One>> : b \in {b \in branches(cell) : branch_children(cell, b) = {}}}
root(cell) == {<<0, Zero>>}

\* The boundary points that make trivial CVs outside fork points are dropped:
\* the root of a morphology with a single root branch, and the terminal points.
neither_root_nor_terminal(cell, x) ==
    /\ ~(x = <<0, Zero>> /\ Cardinality(branch_children(cell, mnpos)) = 1)
    /\ x \notin terminal(cell)

\* The first boundary point on branch b beyond position start, or the distal
\* end of the branch.
cable_end(locs, b, start) ==
    LET beyond == {x \in locs : x[1] = b /\ RLess(start, x[2])}
    IN  IF beyond = {} THEN One
        ELSE (CHOOSE x \in beyond : \A y \in beyond : RLeq(x[2], y[2]))[2]

\* Faulty variant of cable_start: every cable of the CV starts at the
\* position of the head.
cable_startAtHead(h, b) == h[2]

\* Where the cable of branch b starts in the CV of head h: at the head on the
\* branch of the head, at the proximal end of the branches entered from it.
cable_start(h, b) == IF b = h[1] THEN h[2] ELSE Zero

\* The CV that starts at the head h (the pseudo-location (mnpos, 0) for the
\* first CV): the set of its cables, and the heads of the CVs that start
\* where it ends. A boundary point at a fork (b, 1), or at the common root
\* of several branches, is a CV of zero extent from which every child
\* branch starts a CV of its own; a boundary point (c, 0) detaches branch c
\* alone from the CV that holds the fork.
cv_from_head(cell, locs, h) ==
    IF h[1] = mnpos /\ <<0, Zero>> \in locs
    THEN [cables |-> {<<0, Zero, Zero>>},
          heads |-> {<<c, Zero>> : c \in branch_children(cell, mnpos)}]
    ELSE IF h[1] # mnpos /\ h[2] = One
    THEN [cables |-> {<<h[1], One, One>>},
          heads |-> {<<c, Zero>> : c \in branch_children(cell, h[1])}]
    ELSE LET start(b) == cable_start(h, b)
             through(b) == cable_end(locs, b, start(b)) = One
                             /\ <<b, One>> \notin locs
             entered[b \in branches(cell)] ==
                 \/ b = h[1]
                 \/ /\ <<b, Zero>> \notin locs
                    /\ IF cell.parent[b] = mnpos THEN h[1] = mnpos
                       ELSE entered[cell.parent[b]] /\ through(cell.parent[b])
             reached(b) ==
                 IF cell.parent[b] = mnpos THEN h[1] = mnpos
                 ELSE entered[cell.parent[b]] /\ through(cell.parent[b])
             inside == {b \in branches(cell) : entered[b]}
         IN  [cables |-> {<<b, start(b), cable_end(locs, b, start(b))>> : b \in inside},
              heads |-> {<<b, cable_end(locs, b, start(b))>> :
                            b \in {b \in inside : ~through(b)}}
                          \cup {<<b, Zero>> :
                                  b \in {b \in branches(cell) \ inside :
                                           reached(b) /\ <<b, Zero>> \in locs}}]

RECURSIVE cv_geometry_from_heads(_, _, _, _)
\* The loop of cv_geometry_from_ends over the stack next_cv_head of pairs
\* (head, index of the parent CV): the CV of the head on top of the stack
\* gets the next index, and its cables are stored in order.
cv_geometry_from_heads(cell, locs, next_cv_head, g) ==
    IF next_cv_head = << >> THEN g
    ELSE LET next == next_cv_head[Len(next_cv_head)]
             cv == cv_from_head(cell, locs, next[1])
             cv_index == Len(g.cv_parent)
             cv_heads == sort(cv.heads)
             cv_cables == sort(cv.cables)
         IN  cv_geometry_from_heads(cell, locs,
                 SubSeq(next_cv_head, 1, Len(next_cv_head) - 1)
                     \o [i \in 1 .. Len(cv_heads) |-> <<cv_heads[i], cv_index>>],
                 [g EXCEPT !.cv_cables = @ \o cv_cables,
                           !.cv_cables_divs = Append(@, Len(g.cv_cables) + Len(cv_cables)),
                           !.cv_parent = Append(@, next[2])])

\* cv_geometry_from_ends(cell, lset): the geometry of one cell.
cv_geometry_from_ends(cell, lset) ==
    IF num_branches(cell) = 0 THEN [EmptyGeometry EXCEPT !.cell_cv_divs = <<0, 0>>]
    ELSE LET locs == {x \in lset : neither_root_nor_terminal(cell, x)}
             g == cv_geometry_from_heads(cell, locs, <<<<<<mnpos, Zero>>, -1>>>>,
                                         [EmptyGeometry EXCEPT !.cv_cables_divs = <<0>>])
         IN  [g EXCEPT !.cv_to_cell = [i \in 1 .. Len(g.cv_parent) |-> 0],
                       !.cell_cv_divs = <<0, Len(g.cv_parent)>>]

\* append_divs: the partition right, shifted, continues the partition left.
append_divs(left, right) ==
    IF left = << >> THEN right
    ELSE IF right = << >> THEN left
    ELSE left \o [i \in 1 .. (Len(right) - 1) |-> right[i + 1] + left[Len(left)]]

\* Faulty variant of append_offset: -1 is shifted like an index.
append_offsetAll(left, offset, right) ==
    left \o [i \in 1 .. Len(right) |-> right[i] + offset]

\* append_offset: the indices of right, shifted by offset; -1 stays -1.
append_offset(left, offset, right) ==
    left \o [i \in 1 .. Len(right) |-> IF right[i] = -1 THEN -1 ELSE right[i] + offset]

\* append(cv_geometry&, const cv_geometry&): the cells of right follow the
\* cells of geom.
append(g, right) ==
    IF n_cell(right) = 0 THEN g
    ELSE IF n_cell(g) = 0 THEN right
    ELSE [cv_cables |-> g.cv_cables \o right.cv_cables,
          cv_cables_divs |-> append_divs(g.cv_cables_divs, right.cv_cables_divs),
          cv_parent |-> append_offset(g.cv_parent, cv_geometry_size(g), right.cv_parent),
          cv_to_cell |-> append_offset(g.cv_to_cell, n_cell(g), right.cv_to_cell),
          cell_cv_divs |-> append_divs(g.cell_cv_divs, right.cell_cv_divs)]

\* The morphologies of the geometry tests (all branches of length 1), and
\* the boundary locsets given for them.
GeomCells ==
    UNION {{[parent |-> p, length |-> [b \in 0 .. (nb - 1) |-> 1]] : p \in BranchParents(nb)} :
             nb \in 0 .. MaxGeomBranches}

EndsOf(cell) ==
    IF num_branches(cell) = 0 THEN {nil}
    ELSE {nil, terminal(cell), root(cell),
          on_branches(Zero, cell),
          {canonicalize(x, cell) : x \in on_branches(Zero, cell)},
          on_branches(Half, cell),
          on_branches(Zero, cell) \cup on_branches(One, cell),
          cv_policy_fixed_per_branch(1, AllRegion, "none", cell).locset,
          cv_policy_fixed_per_branch(2, AllRegion, "none", cell).locset,
          cv_policy_fixed_per_branch(2, AllRegion, "interior_forks", cell).locset,
          {<<num_branches(cell) - 1, Zero>>},
          {<<b, Zero>> : b \in {b \in branches(cell) : b % 3 = 1}}}

\* A cell with the boundary points its discretization policy returns.
GeomInputs ==
    UNION {{[cell |-> cell, ends |-> ends] : ends \in EndsOf(cell)} : cell \in GeomCells}

\* The cells that follow the first cell of a batch.
BatchInputs ==
    LET fork == [parent |-> [b \in 0 .. 2 |-> IF b = 0 THEN mnpos ELSE 0],
                 length |-> [b \in 0 .. 2 |-> 1]]
    IN  {[cell |-> [parent |-> << >>, length |-> << >>], ends |-> nil],
         [cell |-> fork, ends |-> on_branches(Half, fork)]}

Batches ==
    UNION {{<<first>> \o rest : first \in GeomInputs, rest \in [1 .. n -> BatchInputs]} :
             n \in 0 .. (MaxCells - 1)}

\* fvm_cv_discretize(cells, params): the cells, and how many of them have
\* been discretized and appended.
DiscretizeCall(cells) == [policy |-> "discretize", cells |-> cells, done |-> 0]

InitGeom ==
    /\ NoMatrix
    /\ policy_call \in {DiscretizeCall(cells) : cells \in Batches}
    /\ geom = EmptyGeometry
    /\ NoOthers

\* fvm_cv_discretize(cell, params): the geometry of a single cell.
fvm_cv_discretize_cell ==
    /\ policy_call.done = 0
    /\ Len(policy_call.cells) = 1
    /\ geom' = cv_geometry_from_ends(policy_call.cells[1].cell, policy_call.cells[1].ends)
    /\ policy_call' = [policy_call EXCEPT !.done = 1]
    /\ UNCHANGED <<parent_index, cell_cv_divs, d, u, rhs, cv_capacitance,
                   cv_elastance, face_conductance, cv_area, cell_to_intdom,
                   invariant_d, call, last_call, reused, nsolve, others>>

\* One turn of the loop of fvm_cv_discretize(cells, params):
\* append(combined, fvm_cv_discretize(cells[cell_idx], params)).
fvm_cv_discretize_append ==
    /\ Len(policy_call.cells) > 1
    /\ policy_call.done < Len(policy_call.cells)
    /\ LET next == policy_call.cells[policy_call.done + 1]
       IN  geom' = append(geom, cv_geometry_from_ends(next.cell, next.ends))
    /\ policy_call' = [policy_call EXCEPT !.done = @ + 1]
    /\ UNCHANGED <<parent_index, cell_cv_divs, d, u, rhs, cv_capacitance,
                   cv_elastance, face_conductance, cv_area, cell_to_intdom,
                   invariant_d, call, last_call, reused, nsolve, others>>

NextGeom ==
    \/ fvm_cv_discretize_cell
    \/ fvm_cv_discretize_append

SpecGeom == InitGeom /\ [][NextGeom]_vars

\* The cells discretized so far, numbered from 0, and the CVs and cables the
\* geometry holds for one of them.
discretized == 0 .. (policy_call.done - 1)
cell_cvs(c) == cell_cv_interval(geom, c)[1] .. (cell_cv_interval(geom, c)[2] - 1)
cv_cable_set(cv) == {cables(geom, cv)[k] : k \in 1 .. Len(cables(geom, cv))}

\* ---------------------------------------------------------------- C12
\* C12: in the geometry cv_geometry_from_ends makes for a non-empty
\* morphology and any boundary locset, the cables of the CVs tile the
\* morphology: every cable lies on a branch, no cable is held twice, cables
\* of distinct CVs (and distinct cables of one CV) share no stretch of
\* positive length, and on every branch the cables of positive length follow
\* one another from position 0 to position 1 without a gap.
C12_CablesTileMorphology ==
    \A c \in discretized :
        LET cell == policy_call.cells[c + 1].cell
            held == UNION {cv_cable_set(cv) : cv \in cell_cvs(c)}
            positive(b) == {x \in held : x[1] = b /\ RLess(x[2], x[3])}
            apart(x, y) == x[1] # y[1] \/ RLeq(x[3], y[2]) \/ RLeq(y[3], x[2])
        IN  num_branches(cell) > 0 =>
              /\ \A x \in held :
                    x[1] \in branches(cell) /\ RLeq(Zero, x[2])
                        /\ RLeq(x[2], x[3]) /\ RLeq(x[3], One)
              /\ \A cv \in cell_cvs(c) :
                    /\ cv_cable_set(cv) # {}
                    /\ Cardinality(cv_cable_set(cv)) = Len(cables(geom, cv))
                    /\ \A x, y \in cv_cable_set(cv) : x = y \/ apart(x, y)
              /\ \A cv1, cv2 \in cell_cvs(c) :
                    cv1 # cv2 =>
                        \A x \in cv_cable_set(cv1), y \in cv_cable_set(cv2) : apart(x, y)
              /\ \A b \in branches(cell) :
                    /\ \E x \in positive(b) : x[2] = Zero
                    /\ \A x \in positive(b) :
                          x[3] = One \/ \E y \in positive(b) : y[2] = x[3]

\* A single cell with a fork has been cut into three or more CVs, one of
\* which runs across the fork.
C12_Witness ==
    /\ policy_call.done = 1
    /\ Len(policy_call.cells) = 1
    /\ cv_geometry_size(geom) >= 3
    /\ \E cv \in cell_cvs(0) :
          \E x, y \in cv_cable_set(cv) : x[1] # y[1] /\ RLess(Zero, x[2])

\* ---------------------------------------------------------------- C13
\* C13: in every cv_geometry the CVs of a cell are numbered with parents
\* first: the first CV of each cell has no parent (-1), and every other CV
\* has a parent in the same cell whose index is strictly smaller than its own.
C13_ParentsPrecedeChildren ==
    \A c \in discretized :
        \A cv \in cell_cvs(c) :
            LET p == geom.cv_parent[cv + 1]
            IN  IF cv = cell_cv_interval(geom, c)[1] THEN p = -1
                ELSE p \in cell_cvs(c) /\ p < cv

\* A batch whose second cell has a CV whose parent is not the first CV of
\* that cell.
C13_Witness ==
    /\ policy_call.done >= 2
    /\ \E cv \in cell_cvs(1) : geom.cv_parent[cv + 1] > cell_cv_interval(geom, 1)[1]

\* ---------------------------------------------------------------- C14
\* A single non-empty cell has been discretized with boundary points at the
\* proximal end of every branch: ls::on_branches(0) in canonical form, or
\* the points of cv_policy_fixed_per_branch(1) without interior_forks.
at_branch_starts ==
    /\ policy_call.done = 1
    /\ Len(policy_call.cells) = 1
    /\ num_branches(policy_call.cells[1].cell) > 0
    /\ policy_call.cells[1].ends \in
          {{canonicalize(x, policy_call.cells[1].cell) :
               x \in on_branches(Zero, policy_call.cells[1].cell)},
           cv_policy_fixed_per_branch(1, AllRegion, "none", policy_call.cells[1].cell).locset}

\* The fork points of a cell, each named by the branch that ends there:
\* mnpos names the root, where it is shared by several branches.
fork_points(cell) ==
    {f \in branches(cell) \cup {mnpos} : Cardinality(branch_children(cell, f)) > 1}

\* A zero-length cable on every branch that meets at the fork f.
meeting_cables(cell) ==
    [f \in fork_points(cell) |->
        (IF f = mnpos THEN {} ELSE {<<f, One, One>>})
            \cup {<<c, Zero, Zero>> : c \in branch_children(cell, f)}]

\* The zero-length cable at the fork f in canonical form.
fork_cable(cell) ==
    [f \in fork_points(cell) |->
        IF f = mnpos THEN {<<0, Zero, Zero>>} ELSE {<<f, One, One>>}]

\* Every fork f has a CV with the cables fork_cables[f], and every branch is the
\* single cable of exactly one CV, whose parent is the CV of the fork at its
\* proximal end (the first branch of a cell with one root branch has none).
one_cv_per_branch(fork_cables) ==
    LET cell == policy_call.cells[1].cell
    IN  /\ \A f \in fork_points(cell) :
              \E cv \in cell_cvs(0) : cv_cable_set(cv) = fork_cables[f]
        /\ \A b \in branches(cell) :
              \E cv \in cell_cvs(0) :
                  /\ cv_cable_set(cv) = {<<b, Zero, One>>}
                  /\ \A cv2 \in cell_cvs(0) :
                        <<b, Zero, One>> \in cv_cable_set(cv2) => cv2 = cv
                  /\ IF cell.parent[b] \in fork_points(cell)
                     THEN /\ geom.cv_parent[cv + 1] # -1
                          /\ cv_cable_set(geom.cv_parent[cv + 1])
                               = fork_cables[cell.parent[b]]
                     ELSE geom.cv_parent[cv + 1] = -1

C20_EmptyCellsWellFormed ==
    policy_call.done >= 1 =>
        /\ n_cell(geom) = policy_call.done
        /\ \A c \in discretized :
              LET alone == cv_geometry_from_ends(policy_call.cells[c + 1].cell,
                                                 policy_call.cells[c + 1].ends)
              IN  /\ Cardinality(cell_cvs(c)) = cv_geometry_size(alone)
                  /\ num_branches(policy_call.cells[c + 1].cell) = 0 => cell_cvs(c) = {}
        /\ cv_geometry_size(geom) = geom.cell_cv_divs[Len(geom.cell_cv_divs)]
        /\ size_assertion(geom)

\* ------------------------------------------ encodings of a root's parent
\* A root CV has no parent: its parent index is its own index, or -1 as
\* cv_geometry::cv_parent documents it.  An access at an index outside
\* 0 .. size()-1 is undefined; of its outcomes the model takes those in which
\* a stray write changes no array of the matrix_state and a stray read yields
\* an arbitrary value, and it records the index in out_of_range.
\* The loop of the constructor over i = 1 .. n-1 for either encoding;
\* returns <<u, invariant_d, out_of_range>>.
RECURSIVE CtorLoopEncoded(_, _, _, _, _, _, _)
CtorLoopEncoded(i, n, p, fc, uu, inv, out) ==
    IF i >= n THEN <<uu, inv, out>>
    ELSE LET gij == fc[i]
             uu1 == [uu EXCEPT ![i] = RNeg(gij)]
             inv1 == [inv EXCEPT ![i] = RAdd(@, gij)]
             inv2 == IF p[i] \in DOMAIN inv
                     THEN [inv1 EXCEPT ![p[i]] = RAdd(@, gij)]
                     ELSE inv1
         IN  CtorLoopEncoded(i + 1, n, p, fc, uu1, inv2,
                             IF p[i] \in DOMAIN inv THEN out ELSE out \cup {p[i]})

\* for (i = last; i-- > first; ) of step_explicit for either encoding, with
\* parent array p and off-diagonal uu; returns <<rhs, out_of_range>>.
RECURSIVE StepLoopEncoded(_, _, _, _, _, _, _, _, _)
StepLoopEncoded(i, first, p, uu, rs, a, dt_factor, stray, out) ==
    IF ~(i >= first) THEN <<rs, out>>
    ELSE LET pi == p[i]
             inside == pi \in DOMAIN rs
             vpi == IF inside THEN a.voltage[pi] ELSE stray
             rs1 == IF pi < i
                    THEN LET t == IF inside
                                  THEN [rs EXCEPT ![pi] = RSub(@, RMul(uu[i], a.voltage[i]))]
                                  ELSE rs
                         IN  [t EXCEPT ![i] = RSub(@, RMul(uu[i], vpi))]
                    ELSE rs
             rs2 == [rs1 EXCEPT ![i] =
                        RSub(a.voltage[i],
                             RMul(RMul(dt_factor, cv_elastance[i]),
                                  RAdd(rs1[i], RMul(invariant_d[i], a.voltage[i]))))]
         IN  StepLoopEncoded(i - 1, first, p, uu, rs2, a, dt_factor, stray,
                             IF pi < i /\ ~inside THEN out \cup {pi} ELSE out)

\* The loop of step_explicit over submatrices m .. ncells-1.
RECURSIVE StepEncoded(_, _, _, _, _, _, _)
StepEncoded(m, p, uu, rs, a, stray, out) ==
    IF m >= ncells THEN <<rs, out>>
    ELSE LET dt_factor == RMul(a.dt_coeff, a.dt_intdom[cell_to_intdom[m]])
             r == IF RPos(dt_factor)
                  THEN StepLoopEncoded(Last(m) - 1, First(m), p, uu, rs, a, dt_factor,
                                       stray, out)
                  ELSE << [i \in DOMAIN rs |->
                              IF i \in CellCVs(m) THEN a.voltage[i] ELSE rs[i]], out >>
         IN  StepEncoded(m + 1, p, uu, r[1], a, stray, r[2])

\* matrix_state(p, cell_cv_divs, cap, cond, area, cell_to_intdom) on a batch
\* whose roots are encoded either way and have any face conductance.
InitRoot ==
    \E n \in 1 .. MaxCV :
    \E cuts \in SUBSET (1 .. (n - 1)) :
    \E tree \in ParentsOf(n, DivsOf(n, cuts)) :
    \E encoding \in {"self", "npos"} :
    \E root_cond \in {Zero, R(1)} :
    \E c2i \in IntdomMaps(Cardinality(cuts) + 1) :
        LET p == [i \in DOMAIN tree |->
                     IF tree[i] = i /\ encoding = "npos" THEN mnpos ELSE tree[i]]
            cond == [i \in 0 .. (n - 1) |-> IF tree[i] = i THEN root_cond ELSE R(i)]
            cap == CapOf(n, 0 .. (n - 1))
            zeros == [i \in 0 .. (n - 1) |-> Zero]
            loop == CtorLoopEncoded(1, n, p, cond, zeros, zeros, {})
        IN  /\ parent_index = p
            /\ cell_cv_divs = DivsOf(n, cuts)
            /\ d = zeros
            /\ u = loop[1]
            /\ rhs = zeros
            /\ cv_capacitance = cap
            /\ cv_elastance = Elastance(cap)
            /\ face_conductance = cond
            /\ cv_area = AreaOf(n, 0 .. (n - 1))
            /\ cell_to_intdom = c2i
            /\ invariant_d = loop[2]
            /\ call = [op |-> "matrix_state", dt_coeff |-> Zero,
                       dt_intdom |-> [k \in 0 .. (Cardinality({c2i[m] : m \in DOMAIN c2i}) - 1) |-> Zero],
                       voltage |-> zeros, current |-> zeros, conductivity |-> zeros]
            /\ last_call = "matrix_state"
            /\ reused = FALSE
            /\ nsolve = 0
            /\ policy_call = NoPolicyCall
            /\ geom = NoGeometry
            /\ out_of_range = loop[3]
            /\ sim = [pc |-> "none"] /\ pw = [vertex_ |-> << >>]
            /\ provider = [regions_ |-> << >>] /\ builder = [stitches |-> << >>]

\* step_explicit(dt_coeff, dt_intdom, voltage, current_density) on such a batch.
step_explicit_encoded ==
    \E s \in Stimuli :
    \E dt_intdom \in DtIntdoms :
    \E stray \in {Zero, R(1), NaN} :
        LET a == [op |-> "step_explicit", dt_coeff |-> s.dt_coeff, dt_intdom |-> dt_intdom,
                  voltage |-> s.voltage, current |-> s.current,
                  conductivity |-> [i \in CVs |-> Zero]]
            r == StepEncoded(0, parent_index, u, StepCurrent(rhs, a), a, stray, out_of_range)
        IN  /\ rhs' = r[1]
            /\ out_of_range' = r[2]
            /\ call' = a
            /\ last_call' = "step_explicit"
            /\ reused' = (last_call # "matrix_state")
            /\ UNCHANGED <<d, nsolve, fields, policy_call, geom, sim, pw, provider, builder>>

NextRoot == step_explicit_encoded

SpecRoot == InitRoot /\ [][NextRoot]_vars

\* ---------------------------------------------------------------- C21
\* C21: whichever way the roots are encoded, matrix_state accesses its
\* arrays only at indices 0 .. size()-1, and no root of a second or later
\* cell contributes to another CV: invariant_d of every other CV is the sum
\* of the face conductances of the CV itself and of its children, and what
\* step_explicit stores for it does not depend on the root's u.
SelfEncoded == [i \in CVs |-> IF IsRoot(i) THEN i ELSE parent_index[i]]
NoRootU == [i \in CVs |-> IF IsRoot(i) THEN Zero ELSE u[i]]
C21_RootIsNoChild ==
    last_call \in {"matrix_state", "step_explicit"} =>
        /\ out_of_range = {}
        /\ \A j \in CVs :
              \/ IsRoot(j) /\ j # 0
              \/ invariant_d[j] =
                    RAdd(IF IsRoot(j) THEN Zero ELSE face_conductance[j],
                         SumOver({c \in CVs \ {i \in CVs : IsRoot(i)} : parent_index[c] = j},
                                 face_conductance))
        /\ last_call = "step_explicit" =>
              \A j \in CVs :
                  \/ IsRoot(j) /\ j # 0
                  \/ rhs[j] = StepEncoded(0, SelfEncoded, NoRootU, StepCurrent(rhs, call),
                                          call, Zero, {})[1][j]

\* ------------------------------------------------- mock simulation (mocksim)
\* time_type (float) is modelled by exact rationals.  A mock_vector is the
\* record [n_, min_, max_] of the source.  The random draws of the source
\* (spike times, event times and target gids) are nondeterministic choices.
MaxRank == 2
MaxFanout == 2
MaxSimTime == 2
\* The spikes generated in one run (all cell groups together).
MaxSpikes == 1

RMin(a, b) == IF RLeq(a, b) THEN a ELSE b
RMax(a, b) == IF RLeq(a, b) THEN b ELSE a

\* mock_vector(): clear()
mock_vector == [n_ |-> 0, min_ |-> Zero, max_ |-> Zero]

\* mock_vector::append
mock_vector_append(q, m) ==
    IF m.n_ = 0 THEN q
    ELSE [n_ |-> q.n_ + m.n_,
          min_ |-> IF q.n_ = 0 THEN m.min_ ELSE RMin(q.min_, m.min_),
          max_ |-> IF q.n_ = 0 THEN m.max_ ELSE RMax(q.max_, m.max_)]

\* mock_vector::take_upto(v): <<taken, what is left of the vector>>
take_upto(q, v) ==
    IF q.n_ # 0 /\ RLeq(q.min_, v)
    THEN IF RLeq(q.max_, v) \/ q.n_ = 1 \/ q.min_ = q.max_
         THEN << q, [n_ |-> 0, min_ |-> q.max_, max_ |-> q.max_] >>
         ELSE LET delta == RDiv(RSub(q.max_, q.min_), R(q.n_ - 1))
                  quot == RDiv(RSub(v, q.min_), delta)
                  floor == quot[1] \div quot[2]
                  taken_n == IF q.n_ < floor THEN q.n_ ELSE floor
              IN  << [n_ |-> taken_n, min_ |-> q.min_,
                      max_ |-> RMin(q.max_, RAdd(q.min_, RMul(R(taken_n), delta)))],
                     [n_ |-> q.n_ - taken_n,
                      min_ |-> RMin(q.max_, RAdd(q.min_, RMul(R(taken_n + 1), delta))),
                      max_ |-> q.max_] >>
    ELSE << mock_vector, q >>

\* mock_poisson(x0, x1, rate, rng): the vectors it can return, of at most
\* `room` spikes: none, one spike at x0, or spikes from x0 to x1.
mock_poisson(x0, x1, room) ==
    {v \in {mock_vector,
            [n_ |-> 1, min_ |-> x0, max_ |-> x0],
            [n_ |-> 2, min_ |-> x0, max_ |-> x1]} : v.n_ <= room}

\* Faulty variant of merge_events_serial: the queue keeps its delivered events.
merge_events_serialKeep(t0, t1, queue, pending_events) ==
    << mock_vector_append(queue, pending_events), mock_vector >>

\* merge_events_serial(t0, t1, queue, pending_events): <<queue, pending>> afterwards
merge_events_serial(t0, t1, queue, pending_events) ==
    << mock_vector_append(take_upto(queue, t0)[2], pending_events), mock_vector >>

\* epoch::advance(t_step)
epoch_advance(ep, t_step) == [id |-> ep.id + 1, t0 |-> ep.t1, t1 |-> RAdd(ep.t1, t_step)]

\* cell_group_partition(sizes): group_divs
cell_group_partition(sizes) ==
    LET sum[k \in 0 .. Len(sizes)] == IF k = 0 THEN 0 ELSE sum[k - 1] + sizes[k]
    IN  <<0>> \o [k \in 1 .. (Len(sizes) + 1) |-> sum[k - 1]]

n_cell_groups == Len(sim.group_divs) - 1
n_gid == sim.group_divs[Len(sim.group_divs)]

\* serial_simulation::make_event_queues(global, pending_events_): the
\* pending_events_ it can leave, fanout_ events per local spike, each pushed
\* on the queue of any gid with a time of at least the first spike + min_delay_.
make_event_queues(global, queues) ==
    LET n == (global.n_ \div sim.n_rank_) * sim.fanout_
        times == {RAdd(global.min_, sim.min_delay_),
                  RAdd(global.max_, RAdd(sim.min_delay_, R(1)))}
        pushed(k) == IF k = 0 THEN {mock_vector}
                     ELSE {[n_ |-> k, min_ |-> a, max_ |-> b] :
                              <<a, b>> \in {ab \in times \X times :
                                  RLeq(ab[1], ab[2]) /\ (k = 1 => ab[1] = ab[2])}}
        total[f \in [1 .. n_gid -> 0 .. n], k \in 0 .. n_gid] ==
            IF k = 0 THEN 0 ELSE total[f, k - 1] + f[k]
        counts == {f \in [1 .. n_gid -> 0 .. n] : total[f, n_gid] = n}
    IN  UNION {{[g \in 1 .. n_gid |-> mock_vector_append(queues[g], add[g])] :
                   add \in {a \in [1 .. n_gid -> UNION {pushed(k) : k \in 0 .. n}] :
                               \A g \in 1 .. n_gid : a[g].n_ = f[g]}} :
               f \in counts}

\* simulation::n_ev_delivered(), n_spike(), time_minmax() and
\* serial_simulation::n_ev_queued()
n_ev_delivered ==
    LET n[k \in 0 .. n_cell_groups] ==
            IF k = 0 THEN 0 ELSE n[k - 1] + sim.cell_groups_[k].n_delivered
    IN  n[n_cell_groups] * sim.n_rank_
n_spike ==
    LET n[k \in 0 .. n_cell_groups] ==
            IF k = 0 THEN 0 ELSE n[k - 1] + sim.cell_groups_[k].n_spike
    IN  n[n_cell_groups] * sim.n_rank_
n_ev_queued ==
    LET n[k \in 0 .. n_gid] == IF k = 0 THEN 0 ELSE n[k - 1] + sim.event_queues_[k].n_
    IN  n[n_gid]
time_minmax ==
    LET t == {sim.cell_groups_[k].t_ : k \in 1 .. n_cell_groups}
    IN  << CHOOSE x \in t : \A y \in t : RLeq(x, y),
           CHOOSE x \in t : \A y \in t : RLeq(y, x) >>

\* serial_simulation(partn, mparam) followed by run(t_final) up to the loop.
InitSim ==
    /\ NoMatrix
    /\ policy_call = NoPolicyCall /\ geom = NoGeometry
    /\ out_of_range = {} /\ pw = [vertex_ |-> << >>]
    /\ provider = [regions_ |-> << >>] /\ builder = [stitches |-> << >>]
    /\ \E sizes \in {<<1>>, <<2>>, <<1, 1>>} :
       \E n_rank \in 1 .. MaxRank :
       \E fanout \in 1 .. MaxFanout :
       \E min_delay \in {R(1), R(3)} :
       \E t_final \in {R(t) : t \in 1 .. MaxSimTime} :
          LET divs == cell_group_partition(sizes)
              t_step == RDiv(min_delay, R(2))
          IN  sim = [pc |-> IF RLess(Zero, t_final) THEN "setup_events" ELSE "return",
                     n_rank_ |-> n_rank, fanout_ |-> fanout, min_delay_ |-> min_delay,
                     t_final |-> t_final, t_step |-> t_step,
                     group_divs |-> divs,
                     cell_groups_ |-> [k \in 1 .. (Len(divs) - 1) |->
                                          [t_ |-> Zero, n_delivered |-> 0, n_spike |-> 0]],
                     ep |-> [id |-> 0, t0 |-> Zero, t1 |-> RMin(t_final, t_step)],
                     i |-> 0,
                     local_spikes |-> mock_vector,
                     n_recv_spike_ |-> 0,
                     pending_events_ |-> [g \in 1 .. divs[Len(divs)] |-> mock_vector],
                     event_queues_ |-> [g \in 1 .. divs[Len(divs)] |-> mock_vector]]

simUnchanged ==
    UNCHANGED <<parent_index, cell_cv_divs, d, u, rhs, cv_capacitance, cv_elastance,
                face_conductance, cv_area, cell_to_intdom, invariant_d, call,
                last_call, reused, nsolve, policy_call, geom, out_of_range, pw,
                provider, builder>>

\* serial_simulation::setup_events(ep.t0, ep.t1), in the loop of run and after it
setup_events ==
    /\ sim.pc \in {"setup_events", "return"}
    /\ LET merged == [g \in 1 .. n_gid |->
                         merge_events_serial(sim.ep.t0, sim.ep.t1, sim.event_queues_[g],
                                             sim.pending_events_[g])]
       IN  sim' = [sim EXCEPT
                      !.event_queues_ = [g \in 1 .. n_gid |-> merged[g][1]],
                      !.pending_events_ = [g \in 1 .. n_gid |-> merged[g][2]],
                      !.i = 0,
                      !.pc = IF sim.pc = "return" THEN "returned" ELSE "advance"]
    /\ simUnchanged

\* cell_groups_[i]->advance(ep, event queues of the gids of group i) and
\* spike_accumulate(local_spikes, spikes)
cell_group_advance ==
    /\ sim.pc = "advance"
    /\ LET k == sim.i + 1
           gids == (sim.group_divs[k] + 1) .. sim.group_divs[k + 1]
           taken[g \in 0 .. n_gid] ==
               IF g = 0 THEN 0
               ELSE taken[g - 1] +
                    (IF g \in gids /\ sim.event_queues_[g].n_ # 0
                     THEN take_upto(sim.event_queues_[g], sim.ep.t1)[1].n_ ELSE 0)
       IN  \E spikes \in mock_poisson(sim.ep.t0, sim.ep.t1,
                                       IF gids = {} THEN 0
                                       ELSE MaxSpikes - n_spike \div sim.n_rank_) :
              sim' = [sim EXCEPT
                         !.cell_groups_[k] =
                             [t_ |-> sim.ep.t1,
                              n_delivered |-> @.n_delivered + taken[n_gid],
                              n_spike |-> @.n_spike + spikes.n_],
                         !.local_spikes = mock_vector_append(@, spikes),
                         !.i = k,
                         !.pc = IF k = n_cell_groups THEN "spike_exchange" ELSE "advance"]
    /\ simUnchanged

\* The rest of an iteration of the loop of run: spike_exchange,
\* local_spikes.clear(), make_event_queues and the next epoch.
spike_exchange ==
    /\ sim.pc = "spike_exchange"
    /\ LET global == [sim.local_spikes EXCEPT !.n_ = @ * sim.n_rank_]
           ep == epoch_advance(sim.ep, sim.t_step)
       IN  \E queues \in make_event_queues(global, sim.pending_events_) :
              sim' = [sim EXCEPT
                         !.n_recv_spike_ = @ + global.n_,
                         !.local_spikes = mock_vector,
                         !.pending_events_ = queues,
                         !.ep = ep,
                         !.pc = IF RLess(ep.t0, sim.t_final) THEN "setup_events"
                                ELSE "return"]
    /\ simUnchanged

NextSim == setup_events \/ cell_group_advance \/ spike_exchange

SpecSim == InitSim /\ [][NextSim]_vars

\* ---------------------------------------------------------------- C22
\* C22: when run has returned, the delivered and the queued events are
\* together fanout events per spike.
C22_EventsConserved ==
    sim.pc = "returned" => n_ev_delivered + n_ev_queued = n_spike * sim.fanout_

C24_AdvanceAssertions ==
    sim.pc = "advance" =>
        LET k == sim.i + 1
        IN  /\ sim.ep.t0 = sim.cell_groups_[k].t_
            /\ \A g \in (sim.group_divs[k] + 1) .. sim.group_divs[k + 1] :
                  sim.event_queues_[g].n_ # 0 => RLeq(sim.ep.t0, sim.event_queues_[g].min_)

\* A group advances in a later epoch with an event in one of its queues that
\* is due in this epoch.
C24_Witness ==
    /\ sim.pc = "advance"
    /\ RPos(sim.ep.t0)
    /\ \E g \in (sim.group_divs[sim.i + 1] + 1) .. sim.group_divs[sim.i + 2] :
          /\ sim.event_queues_[g].n_ # 0
          /\ RLeq(sim.event_queues_[g].min_, sim.ep.t1)

\* ------------------------------------------------------------ pw_elements
\* A pw_elements object is [void, vertex_, element_, thrown]: void tells the
\* pw_elements<void> specialization (which has no element_) from
\* pw_elements<X>; thrown is the message of the exception the last call
\* threw ("" if it returned).  Vertices are the doubles 0 .. MaxVertex (they
\* are only compared), elements are numbers.
MaxVertex == 3
MaxElements == 2

\* npos is pw_size_type(-1), the largest value of the unsigned type: it is
\* written -1 here and is beyond every size.
pw_npos == -1

pw_elements(void) == [void |-> void, vertex_ |-> << >>, element_ |-> << >>, thrown |-> ""]
pw_size(p) ==
    IF p.void THEN (IF p.vertex_ = << >> THEN 0 ELSE Len(p.vertex_) - 1)
    ELSE Len(p.element_)
pw_empty(p) == IF p.void THEN p.vertex_ = << >> ELSE pw_size(p) = 0
runtime_error(p, what) == [p EXCEPT !.thrown = what]

\* clear()
pw_clear(p) == [p EXCEPT !.vertex_ = << >>, !.element_ = << >>, !.thrown = ""]

\* push_back(left, right, elem); push_back(left, right) of pw_elements<void>
pw_push_back(p, left, right, elem) ==
    IF ~pw_empty(p) /\ left # p.vertex_[Len(p.vertex_)]
    THEN runtime_error(p, "noncontiguous element")
    ELSE IF right < left THEN runtime_error(p, "inverted element")
    ELSE [p EXCEPT !.element_ = IF p.void THEN @ ELSE Append(@, elem),
                   !.vertex_ = IF @ = << >> THEN <<left, right>> ELSE Append(@, right),
                   !.thrown = ""]

\* push_back(right, elem); push_back(right) of pw_elements<void>
pw_push_back_right(p, right, elem) ==
    IF pw_empty(p) THEN runtime_error(p, "require initial left vertex for element")
    ELSE IF p.void THEN [p EXCEPT !.vertex_ = Append(@, right), !.thrown = ""]
    ELSE pw_push_back(p, p.vertex_[Len(p.vertex_)], right, elem)

\* assign(vertices, elements); assign(vertices) of pw_elements<void>.  With
\* elements but no vertices, pw_elements<X>::assign dereferences the end
\* iterator of the vertices: each such read yields an arbitrary double (taken
\* from stray) and the iterator never compares equal to the end again.
pw_assign(p, vertices, elements, stray) ==
    LET past == ~p.void /\ vertices = << >> /\ elements # << >>
        vs == IF past THEN stray ELSE vertices
        n == IF p.void THEN Len(vs) - 1 ELSE Len(elements)
        step[j \in 1 .. n] ==
            IF j = 1 THEN pw_push_back(pw_clear(p), vs[1], vs[2],
                                       IF p.void THEN 0 ELSE elements[1])
            ELSE IF step[j - 1].thrown # "" THEN step[j - 1]
            ELSE IF ~past /\ j + 1 > Len(vs)
                 THEN runtime_error(step[j - 1], "vertex list too short")
            ELSE pw_push_back_right(step[j - 1], vs[j + 1],
                                    IF p.void THEN 0 ELSE elements[j])
    IN  IF p.void
        THEN IF vertices = << >> THEN pw_clear(p)
             ELSE IF Len(vertices) = 1 THEN runtime_error(p, "vertex list too short")
             ELSE step[n]
        ELSE IF elements = << >>
             THEN IF vertices # << >> THEN runtime_error(p, "vertex list too long")
                  ELSE pw_clear(p)
        ELSE IF ~past /\ Len(vs) = 1 THEN runtime_error(p, "vertex list too short")
        ELSE IF step[n].thrown # "" THEN step[n]
        ELSE IF past \/ Len(vs) > n + 1
             THEN runtime_error(step[n], "vertex list too long")
        ELSE step[n]

\* bounds(), interval(i) (0-based) and intervals().index(x): the index of the
\* half-open interval holding x, npos if there is none.
pw_bounds(p) == <<p.vertex_[1], p.vertex_[Len(p.vertex_)]>>
pw_index(p, x) ==
    IF x < p.vertex_[1] \/ ~(x < p.vertex_[Len(p.vertex_)]) THEN pw_npos
    ELSE (CHOOSE i \in 1 .. Len(p.vertex_) :
             /\ p.vertex_[i] <= x
             /\ \A j \in (i + 1) .. Len(p.vertex_) : x < p.vertex_[j]) - 1

\* a.interval(i).second and a[i], and the index if it is not one of a: a read
\* outside the vectors yields the arbitrary value stray.
interval_second(a, i, stray) == IF i \in 0 .. (pw_size(a) - 1) THEN a.vertex_[i + 2] ELSE stray
element(a, i, stray) == IF i \in 0 .. (pw_size(a) - 1) THEN a.element_[i + 1] ELSE stray
beyond(name, a, i) == IF i \in 0 .. (pw_size(a) - 1) THEN {} ELSE {<<name, i>>}

\* The loop of meet; returns <<m, out>>, out being the accesses beyond the
\* operands.
RECURSIVE meet_loop(_, _, _, _, _, _, _, _, _, _, _)
meet_loop(a, b, rmin, left, ai, bi, a_right, b_right, m, out, stray) ==
    IF ~(left < rmin) THEN <<m, out>>
    ELSE LET r1 == IF a_right < b_right THEN a_right ELSE b_right
             right == IF r1 < rmin THEN r1 ELSE rmin
             m1 == pw_push_back(m, left, right,
                                <<element(a, ai, stray), element(b, bi, stray)>>)
             an == IF a_right <= right THEN ai + 1 ELSE ai
             bn == IF b_right <= right THEN bi + 1 ELSE bi
         IN  meet_loop(a, b, rmin, right, an, bn,
                       IF a_right <= right THEN interval_second(a, an, stray) ELSE a_right,
                       IF b_right <= right THEN interval_second(b, bn, stray) ELSE b_right,
                       m1,
                       out \cup beyond("a", a, ai) \cup beyond("b", b, bi)
                           \cup (IF a_right <= right THEN beyond("a", a, an) ELSE {})
                           \cup (IF b_right <= right THEN beyond("b", b, bn) ELSE {}),
                       stray)

\* meet(a, b): <<m, out>>
meet(a, b, stray) ==
    IF pw_empty(a) \/ pw_empty(b) THEN <<pw_elements(FALSE), {}>>
    ELSE LET lmax == IF pw_bounds(a)[1] < pw_bounds(b)[1] THEN pw_bounds(b)[1]
                     ELSE pw_bounds(a)[1]
             rmin == IF pw_bounds(b)[2] < pw_bounds(a)[2] THEN pw_bounds(b)[2]
                     ELSE pw_bounds(a)[2]
             ai == pw_index(a, lmax)
             bi == pw_index(b, lmax)
         IN  IF rmin < lmax THEN <<pw_elements(FALSE), {}>>
             ELSE IF rmin = lmax
             THEN << pw_push_back(pw_elements(FALSE), lmax, lmax,
                                  <<element(a, ai, stray), element(b, bi, stray)>>),
                     beyond("a", a, ai) \cup beyond("b", b, bi) >>
             ELSE meet_loop(a, b, rmin, lmax, ai, bi,
                            interval_second(a, ai, stray), interval_second(b, bi, stray),
                            pw_elements(FALSE), {}, stray)

\* The vertex and element sequences given to assign, and the objects that
\* can be built from them.
VertexLists == UNION {[1 .. n -> 0 .. MaxVertex] : n \in 0 .. (MaxElements + 1)}
ElementLists(base) == {[k \in 1 .. n |-> base + k] : n \in 0 .. MaxElements}
Assigned ==
    {q \in {pw_assign(pw_elements(FALSE), vs, es, << >>) :
               vs \in VertexLists \ {<< >>}, es \in ElementLists(10)} : q.thrown = ""}

InitPw ==
    /\ NoMatrix
    /\ policy_call = NoPolicyCall /\ geom = NoGeometry
    /\ out_of_range = {} /\ sim = [pc |-> "none"]
    /\ provider = [regions_ |-> << >>] /\ builder = [stitches |-> << >>]
    /\ \E void \in BOOLEAN :
          pw = [void |-> void, vertex_ |-> << >>, element_ |-> << >>, thrown |-> "",
                b |-> pw_elements(FALSE), m |-> pw_elements(FALSE), out |-> {}]

pwUnchanged ==
    UNCHANGED <<parent_index, cell_cv_divs, d, u, rhs, cv_capacitance, cv_elastance,
                face_conductance, cv_area, cell_to_intdom, invariant_d, call,
                last_call, reused, nsolve, policy_call, geom, out_of_range, sim,
                provider, builder>>

\* One call on the object; the object grows to at most MaxElements elements.
\* b, m and out are the other operand, the result and the accesses beyond
\* the operands of a call of meet, kept until the next call.
called(p) == [p EXCEPT !.b = pw_elements(FALSE), !.m = pw_elements(FALSE), !.out = {}]

push_back ==
    /\ pw_size(pw) < MaxElements
    /\ \E left \in 0 .. MaxVertex, right \in 0 .. MaxVertex :
          pw' = called(pw_push_back(pw, left, right, pw_size(pw) + 1))
    /\ pwUnchanged

push_back_right ==
    /\ pw_size(pw) < MaxElements
    /\ \E right \in 0 .. MaxVertex :
          pw' = called(pw_push_back_right(pw, right, pw_size(pw) + 1))
    /\ pwUnchanged

assign ==
    /\ \E vertices \in VertexLists, elements \in ElementLists(0),
          stray \in [1 .. (MaxElements + 1) -> {0, MaxVertex}] :
          /\ pw.void => elements = << >>
          /\ (pw.void \/ vertices # << >> \/ elements = << >>) => stray = [k \in 1 .. (MaxElements + 1) |-> 0]
          /\ pw' = called(pw_assign(pw, vertices, elements, stray))
    /\ pwUnchanged

clear ==
    /\ pw' = called(pw_clear(pw))
    /\ pwUnchanged

\* m = meet(pw, b) for another object b
meet_with ==
    /\ ~pw.void
    /\ \E b \in Assigned \cup {pw_elements(FALSE)}, stray \in {0, MaxVertex} :
          LET r == meet(pw, b, stray)
          IN  /\ (r[2] = {}) => stray = 0
              /\ pw' = [pw EXCEPT !.b = b, !.m = r[1], !.out = r[2]]
    /\ pwUnchanged

NextPw == push_back \/ push_back_right \/ assign \/ clear \/ meet_with

SpecPw == InitPw /\ [][NextPw]_vars

\* C25: after any sequence of push_back, assign and clear calls, throwing
\* ones included, a pw_elements object (pw_elements<void> too) is empty or
\* has one more vertex than elements, and its vertices are in non-decreasing
\* order.
C25_PwConsistent ==
    /\ pw_empty(pw) \/ Len(pw.vertex_) = pw_size(pw) + 1
    /\ \A i \in 1 .. Len(pw.vertex_), j \in 1 .. Len(pw.vertex_) :
          i <= j => pw.vertex_[i] <= pw.vertex_[j]

\* The operands overlap: both are non-empty and their bounds intersect in
\* [meet_left, meet_right].
meet_left == IF pw_bounds(pw)[1] < pw_bounds(pw.b)[1] THEN pw_bounds(pw.b)[1]
             ELSE pw_bounds(pw)[1]
meet_right == IF pw_bounds(pw.b)[2] < pw_bounds(pw)[2] THEN pw_bounds(pw.b)[2]
              ELSE pw_bounds(pw)[2]
overlapping == ~pw_empty(pw) /\ ~pw_empty(pw.b) /\ meet_left <= meet_right
covers(p, k, m, i) ==
    p.vertex_[k] <= m.vertex_[i] /\ m.vertex_[i + 1] <= p.vertex_[k + 1]

\* C26: meet(a, b) is empty if an operand is empty or the bounds do not
\* overlap; otherwise its bounds are the intersection of the operands'
\* bounds, its vertices are the operands' vertices in the intersection and
\* the intersection's end points, in order, and the element on each interval
\* pairs the elements of a and of b that cover the interval.
C26_MeetResult ==
    (~pw.void /\ pw.b.thrown = "" /\ pw.m.thrown = "") =>
        IF ~overlapping THEN pw_empty(pw.m) /\ pw.m.vertex_ = << >>
        ELSE /\ ~pw_empty(pw.m)
             /\ pw_bounds(pw.m) = <<meet_left, meet_right>>
             /\ {pw.m.vertex_[i] : i \in 1 .. Len(pw.m.vertex_)} =
                    {v \in {pw.vertex_[i] : i \in 1 .. Len(pw.vertex_)}
                           \cup {pw.b.vertex_[i] : i \in 1 .. Len(pw.b.vertex_)} :
                        meet_left <= v /\ v <= meet_right}
                    \cup {meet_left, meet_right}
             /\ \A i \in 1 .. (Len(pw.m.vertex_) - 1) :
                   pw.m.vertex_[i] <= pw.m.vertex_[i + 1]
             /\ Len(pw.m.element_) = Len(pw.m.vertex_) - 1
             /\ \A i \in 1 .. Len(pw.m.element_) :
                   /\ \E k \in 1 .. pw_size(pw) :
                         covers(pw, k, pw.m, i) /\ pw.m.element_[i][1] = pw.element_[k]
                   /\ \E k \in 1 .. pw_size(pw.b) :
                         covers(pw.b, k, pw.m, i) /\ pw.m.element_[i][2] = pw.b.element_[k]

\* C29: meet(a, b) accesses no interval or element index >= size() of an
\* operand, the final loop iteration included.
C29_MeetInRange == pw.out = {}

\* -------------------------------------------------------------- mprovider
\* A label dictionary gives some of the Labels a definition, which names the
\* labels it refers to; the value of a definition is the set of the labels
\* it is built from.  The provider is [label_dict, label_dict_ptr, regions_,
\* locsets_, pc, name, thrown, value]: label_dict_ptr tells whether the
\* pointer is set, regions_ and locsets_ map names to a value or to
\* circular_def, and name, thrown, value describe the last lookup made from
\* outside.
Labels == {"a", "b", "c"}
circular_def == {"circular_def"}
LabelDicts == UNION {[D -> SUBSET Labels] : D \in SUBSET Labels}
Orders == {o \in [1 .. Cardinality(Labels) -> Labels] :
              \A i \in DOMAIN o, j \in DOMAIN o : o[i] = o[j] => i = j}

\* map.emplace(key, value): inserts only if the key is not in the map
emplace(entries, key, value) ==
    IF key \in DOMAIN entries THEN entries ELSE entries @@ (key :> value)

\* The labels in the order a < b < c, as the arguments of an expression are
\* evaluated.
InOrder(S) ==
    LET all == <<"a", "b", "c">>
    IN  SelectSeq(all, LAMBDA x : x \in S)

\* try_lookup(name, map, dict_ptr, errval), where map is the member `which'
\* of the provider; thingify of a definition looks up each label it names
\* with region(name).  The result is [st, thrown, value].
RECURSIVE try_lookup(_, _, _)
try_lookup(name, which, st) ==
    LET thrown(s, what) == [st |-> s, thrown |-> <<what, name>>, value |-> {}]
        \* thingify(*it): values of the named labels, left to right
        eval[k \in 0 .. Cardinality(Labels)] ==
            LET args == InOrder(st.label_dict[name])
            IN  IF k = 0
                THEN [st |-> [st EXCEPT ![which] = emplace(@, name, circular_def)],
                      thrown |-> << >>, value |-> {name}]
                ELSE IF k > Len(args) \/ eval[k - 1].thrown # << >> THEN eval[k - 1]
                ELSE LET r == try_lookup(args[k], "regions_", eval[k - 1].st)
                     IN  IF r.thrown # << >> THEN r
                         ELSE [st |-> r.st, thrown |-> << >>,
                               value |-> eval[k - 1].value \cup r.value]
    IN  IF name \notin DOMAIN st[which]
        THEN IF st.label_dict_ptr
             THEN IF name \notin DOMAIN st.label_dict
                  THEN thrown([st EXCEPT ![which] = emplace(@, name, circular_def)],
                              "unbound_name")
                  ELSE LET t == eval[Cardinality(Labels)]
                           entries == emplace(t.st[which], name, t.value)
                       IN  IF t.thrown # << >> THEN t
                           ELSE [st |-> [t.st EXCEPT ![which] = entries],
                                 thrown |-> << >>, value |-> entries[name]]
             ELSE thrown(st, "unbound_name")
        ELSE IF st[which][name] = circular_def THEN thrown(st, "circular_definition")
        ELSE [st |-> st, thrown |-> << >>, value |-> st[which][name]]

\* The loops of init over the names of the dictionary, taken in the order o
\* (the iteration order of the dictionary's map); an exception ends init.
init_loops(st, o) ==
    LET names == SelectSeq(o, LAMBDA x : x \in DOMAIN st.label_dict)
        n == Len(names)
        step[k \in 0 .. 2 * Cardinality(Labels)] ==
            IF k = 0 THEN [st |-> st, thrown |-> << >>, value |-> {}]
            ELSE IF k > 2 * n \/ step[k - 1].thrown # << >> THEN step[k - 1]
            ELSE IF k <= n THEN try_lookup(names[k], "regions_", step[k - 1].st)
            ELSE try_lookup(names[k - n], "locsets_", step[k - 1].st)
    IN  step[2 * Cardinality(Labels)]

provUnchanged ==
    UNCHANGED <<parent_index, cell_cv_divs, d, u, rhs, cv_capacitance, cv_elastance,
                face_conductance, cv_area, cell_to_intdom, invariant_d, call,
                last_call, reused, nsolve, policy_call, geom, out_of_range, sim,
                pw, builder>>

InitProvider ==
    /\ NoMatrix
    /\ policy_call = NoPolicyCall /\ geom = NoGeometry
    /\ out_of_range = {} /\ sim = [pc |-> "none"]
    /\ pw = [vertex_ |-> << >>] /\ builder = [stitches |-> << >>]
    /\ \E label_dict \in LabelDicts, with_dict \in BOOLEAN :
          /\ ~with_dict => label_dict = << >>
          /\ provider = [label_dict |-> label_dict, label_dict_ptr |-> with_dict,
                         regions_ |-> << >>, locsets_ |-> << >>, pc |-> "init",
                         name |-> "", thrown |-> << >>, value |-> {}]

\* mprovider::init(), the last step of the construction; if it throws there
\* is no provider.
init ==
    /\ provider.pc = "init"
    /\ IF ~provider.label_dict_ptr
       THEN provider' = [provider EXCEPT !.pc = "ready"]
       ELSE \E o \in Orders :
               LET r == init_loops(provider, o)
               IN  provider' =
                       IF r.thrown # << >>
                       THEN [r.st EXCEPT !.pc = "failed", !.name = r.thrown[2],
                                         !.thrown = r.thrown]
                       ELSE [r.st EXCEPT !.pc = "ready", !.label_dict_ptr = FALSE]
    /\ provUnchanged

\* mprovider::region(name), mprovider::locset(name)
lookup(name, which) ==
    LET r == try_lookup(name, which, provider)
    IN  provider' = [r.st EXCEPT !.name = name, !.thrown = r.thrown, !.value = r.value]

region ==
    /\ provider.pc = "ready"
    /\ \E name \in Labels : lookup(name, "regions_")
    /\ provUnchanged

locset ==
    /\ provider.pc = "ready"
    /\ \E name \in Labels : lookup(name, "locsets_")
    /\ provUnchanged

NextProvider == init \/ region \/ locset

SpecProvider == InitProvider /\ [][NextProvider]_vars

\* The labels the definition of x depends on, directly or transitively.
RECURSIVE depends(_, _)
depends(S, k) ==
    IF k = 0 THEN S
    ELSE depends(S \cup UNION {IF y \notin DOMAIN provider.label_dict THEN {}
                               ELSE provider.label_dict[y] : y \in S}, k - 1)
dependencies(x) ==
    IF x \notin DOMAIN provider.label_dict THEN {}
    ELSE depends(provider.label_dict[x], Cardinality(Labels))

\* C27: a lookup throws circular_definition if and only if the definition
\* of the name depends on the name itself; a name absent from the dictionary
\* throws unbound_name; a name with an acyclic definition returns its
\* resolved value, not the pending marker.
C27_LookupOutcome ==
    provider.name # "" =>
        LET x == provider.name
            what == IF provider.thrown = << >> THEN "" ELSE provider.thrown[1]
        IN  /\ what = "circular_definition" <=> x \in dependencies(x)
            /\ x \notin DOMAIN provider.label_dict => what = "unbound_name"
            /\ (x \in DOMAIN provider.label_dict /\ x \notin dependencies(x)
                   /\ \A y \in dependencies(x) : y \in DOMAIN provider.label_dict
                                                 /\ y \notin dependencies(y)) =>
                  /\ what = ""
                  /\ provider.value = {x} \cup dependencies(x)

\* ------------------------------------------------------- fragment_builder
\* The builder is [forest, id_to_node, last_id, thrown, call, pc, iter,
\* stree].  forest is [node, kids]: node is the sequence of the
\* fragment_segments, a node being known by its place in it, and kids[i]
\* lists the children of node i in order, kids[0] the roots; 0 stands for
\* the null iterator.  thrown names the exception of the last call ("" if
\* it returned) and call holds its arguments.  Points are rationals, a
\* missing proximal point is << >>.
MaxFragments == 2
MaxSegments == 4

FragmentIds == {"f", "g"}
Fragments ==
    [id : FragmentIds, prox : {<< >>, R(0)}, dist : {R(2)}, tag : {0, 3}]
Alongs == {Zero, Half, One, R(2)}

empty_forest == [node |-> << >>, kids |-> (0 :> << >>)]
forest_empty(forest) == forest.kids[0] = << >>

\* i.parent(), i.child() of a forest iterator
forest_parent(forest, i) == forest.node[i].up
forest_child(forest, i) == IF forest.kids[i] = << >> THEN 0 ELSE forest.kids[i][1]

\* forest.push_child(p, n), forest.push_front(n) for p = 0: n becomes the
\* first child of p (the first root).
push_child(forest, p, n) ==
    LET k == Len(forest.node) + 1
    IN  [node |-> Append(forest.node, [n EXCEPT !.up = p]),
         kids |-> [forest.kids EXCEPT ![p] = <<k>> \o @] @@ (k :> << >>)]

\* push_child(p, split) followed by grafting the siblings after the new
\* node below it: the new node is the only child of p and has the former
\* children of p.
push_split(forest, p, split) ==
    LET k == Len(forest.node) + 1
        moved == forest.kids[p]
    IN  [node |-> [i \in 1 .. k |->
                      IF i = k THEN [split EXCEPT !.up = p]
                      ELSE IF \E j \in 1 .. Len(moved) : moved[j] = i
                           THEN [forest.node[i] EXCEPT !.up = k]
                      ELSE forest.node[i]],
         kids |-> [forest.kids EXCEPT ![p] = <<k>>] @@ (k :> moved)]

\* lerp(a, b, u)
lerp(a, b, t) == RAdd(a, RMul(t, RSub(b, a)))

\* find_fragment_along(id, along): [thrown, node]
RECURSIVE continuation(_, _, _)
continuation(forest, i, along) ==
    IF RLess(forest.node[i].along_dist, along)
    THEN continuation(forest, forest.kids[i][Len(forest.kids[i])], along)
    ELSE i
find_fragment_along(b, id, along) ==
    IF RLess(along, Zero) \/ RLess(One, along)
    THEN [thrown |-> "invalid_fragment_position", node |-> 0]
    ELSE IF id \notin DOMAIN b.id_to_node
    THEN [thrown |-> "no_such_fragment", node |-> 0]
    ELSE [thrown |-> "", node |-> continuation(b.forest, b.id_to_node[id], along)]

\* fragment_builder_impl::add(f, parent, along)
impl_add(b, f, parent, along) ==
    LET found == find_fragment_along(b, parent, along)
        p == found.node
        pn == b.forest.node[p]
        attach == ~(parent = "" /\ forest_empty(b.forest))
        at_prox == attach /\ along = pn.along_prox
        split == attach /\ ~at_prox /\ RLess(along, pn.along_dist)
        point == lerp(pn.prox, pn.dist,
                      RDiv(RSub(along, pn.along_prox),
                           RSub(pn.along_dist, pn.along_prox)))
        prox == IF f.prox # << >> \/ ~attach THEN f.prox
                ELSE IF at_prox THEN pn.prox
                ELSE IF split THEN point
                ELSE pn.dist
        forest1 ==
            IF split
            THEN push_split([b.forest EXCEPT !.node[p].dist = point,
                                             !.node[p].along_dist = along],
                            p, [pn EXCEPT !.prox = point, !.along_prox = along])
            ELSE b.forest
        q == IF ~attach THEN 0
             ELSE IF at_prox THEN forest_parent(b.forest, p)
             ELSE p
        n == [along_prox |-> Zero, along_dist |-> One, prox |-> prox,
              dist |-> f.dist, tag |-> f.tag, seg_id |-> mnpos, up |-> 0]
    IN  IF f.id \in DOMAIN b.id_to_node
        THEN [b EXCEPT !.thrown = "duplicate_fragment_id"]
        ELSE IF attach /\ found.thrown # "" THEN [b EXCEPT !.thrown = found.thrown]
        ELSE IF prox = << >> THEN [b EXCEPT !.thrown = "missing_fragment_start"]
        ELSE [b EXCEPT !.forest = push_child(forest1, q, n),
                       !.id_to_node = (f.id :> Len(forest1.node) + 1) @@ @,
                       !.last_id = f.id,
                       !.thrown = ""]

\* fragment_builder::add(f, along)
add_last(b, f, along) ==
    IF forest_empty(b.forest) THEN [b EXCEPT !.thrown = "no_such_fragment"]
    ELSE impl_add(b, f, b.last_id, along)

\* forest.preorder_begin(); 0 is preorder_end()
preorder_begin(forest) == forest_child(forest, 0)

builderUnchanged ==
    UNCHANGED <<parent_index, cell_cv_divs, d, u, rhs, cv_capacitance, cv_elastance,
                face_conductance, cv_area, cell_to_intdom, invariant_d, call,
                last_call, reused, nsolve, policy_call, geom, out_of_range, sim,
                pw, provider>>

InitBuilder ==
    /\ NoMatrix
    /\ policy_call = NoPolicyCall /\ geom = NoGeometry
    /\ out_of_range = {} /\ sim = [pc |-> "none"]
    /\ pw = [vertex_ |-> << >>] /\ provider = [regions_ |-> << >>]
    /\ builder = [forest |-> empty_forest, id_to_node |-> << >>, last_id |-> "",
                  thrown |-> "", call |-> << >>, pc |-> "builder", iter |-> 0,
                  stree |-> << >>]

\* builder.add(f, parent_id, along)
add ==
    /\ builder.pc = "builder"
    /\ Cardinality(DOMAIN builder.id_to_node) <= MaxFragments
    /\ \E f \in Fragments, parent_id \in FragmentIds \cup {""}, along \in Alongs :
          /\ f.id \notin DOMAIN builder.id_to_node =>
                 Cardinality(DOMAIN builder.id_to_node) < MaxFragments
          /\ builder' = [impl_add(builder, f, parent_id, along)
                            EXCEPT !.call = <<f, parent_id, along>>]
    /\ builderUnchanged

\* builder.add(f, along)
add_to_last ==
    /\ builder.pc = "builder"
    /\ \E f \in Fragments, along \in Alongs :
          /\ f.id \notin DOMAIN builder.id_to_node =>
                 Cardinality(DOMAIN builder.id_to_node) < MaxFragments
          /\ builder' = [add_last(builder, f, along) EXCEPT !.call = <<f, along>>]
    /\ builderUnchanged

\* fragment_tree(builder), up to the first test of the loop `while
\* (iter!=end)'; without fragments the loops are skipped and the tree is
\* built.
fragment_tree ==
    /\ builder.pc = "builder"
    /\ builder' = [builder EXCEPT
                      !.iter = preorder_begin(builder.forest),
                      !.stree = << >>,
                      !.call = << >>,
                      !.pc = IF preorder_begin(builder.forest) = 0 THEN "built"
                             ELSE "while"]
    /\ builderUnchanged

\* One turn of the loop: stree.append(seg_parent_id, prox, dist, tag), whose
\* result, the index of the new segment, becomes the node's seg_id.  The
\* body leaves iter as it is.
fragment_tree_while ==
    /\ builder.pc = "while"
    /\ builder.iter # 0
    /\ Len(builder.stree) < MaxSegments
    /\ LET i == builder.iter
           up == forest_parent(builder.forest, i)
           seg_parent_id == IF up # 0 THEN builder.forest.node[up].seg_id ELSE mnpos
           nd == builder.forest.node[i]
       IN  builder' = [builder EXCEPT
                          !.stree = Append(@, [parent |-> seg_parent_id, prox |-> nd.prox,
                                               dist |-> nd.dist, tag |-> nd.tag]),
                          !.forest.node[i].seg_id = Len(builder.stree)]
    /\ builderUnchanged

NextBuilder == add \/ add_to_last \/ fragment_tree \/ fragment_tree_while

SpecBuilder == InitBuilder /\ [][NextBuilder]_vars

\* C28: add(f) on an empty builder succeeds and leaves a single segment with
\* the proximal point, distal point and tag of f; on a non-empty builder an
\* omitted parent means the last added fragment; adding an id that is
\* already present throws duplicate_fragment_id and leaves the builder
\* unchanged.
C28_AddWithoutParent ==
    [][(builder.pc = "builder" /\ builder'.pc = "builder" /\ builder'.call # << >>) =>
          LET f == builder'.call[1]
              omitted == Len(builder'.call) = 2
              along == builder'.call[Len(builder'.call)]
              same(b1, b2) == /\ b1.forest = b2.forest
                              /\ b1.id_to_node = b2.id_to_node
                              /\ b1.last_id = b2.last_id
          IN  /\ f.id \in DOMAIN builder.id_to_node =>
                    /\ builder'.thrown = "duplicate_fragment_id"
                    /\ same(builder', builder)
              /\ (omitted /\ forest_empty(builder.forest) /\ f.prox # << >>) =>
                    /\ builder'.thrown = ""
                    /\ Len(builder'.forest.node) = 1
                    /\ builder'.forest.kids[0] = <<1>>
                    /\ builder'.forest.node[1].prox = f.prox
                    /\ builder'.forest.node[1].dist = f.dist
                    /\ builder'.forest.node[1].tag = f.tag
              /\ (omitted /\ ~forest_empty(builder.forest)) =>
                    /\ builder'.thrown = impl_add(builder, f, builder.last_id, along).thrown
                    /\ same(builder', impl_add(builder, f, builder.last_id, along))
      ]_vars

\* C30: the construction of a fragment_tree appends one segment per node of
\* the forest, parents before their children: there are never more segments
\* than nodes, every segment is a root or has an earlier segment as parent,
\* and the built tree has a segment for every node.
C30_OneSegmentPerNode ==
    builder.pc \in {"while", "built"} =>
        /\ Len(builder.stree) <= Len(builder.forest.node)
        /\ \A k \in 1 .. Len(builder.stree) :
              builder.stree[k].parent = mnpos \/ builder.stree[k].parent \in 0 .. (k - 2)
        /\ builder.pc = "built" => Len(builder.stree) = Len(builder.forest.node)

====
